---------------------------- MODULE Spec2Model ----------------------------
(***************************************************************************)
(* Vision-Mate: the webcam monitoring pipeline.                            *)
(*                                                                         *)
(*   BlinkDetector    src/blink_detection.py                               *)
(*   PostureDetector  src/posture_detection.py                             *)
(*   MonitorThread    src/main.py (run, stop, _post_event, timers,         *)
(*                    _estimate_distance_cm, get_session_stats)            *)
(*   the event queue and its consumer, VisionMateWindow._process_events    *)
(*   VisionMateWindow src/main.py (start_monitoring, stop_monitoring,      *)
(*                    run_in_background_mode, _on_break_time_changed)      *)
(*                                                                         *)
(* Time.  Every time value is an integer number of ticks of 0.05 s, the    *)
(* finest threshold of the code (blink_detection.py:97), so 0.8 s is 16,   *)
(* 3 s is 60, 60 s is 1200 and 600 s is 12000 ticks.  The clock is the     *)
(* reading of time.time(): it never decreases, and it starts far above     *)
(* every cooldown of the code, as seconds since 1970 do.                   *)
(*                                                                         *)
(* Optional values.  A Python Optional is a sequence of length at most     *)
(* one: None is << >> and a value v is << v >>.                            *)
(***************************************************************************)
EXTENDS Integers, Sequences, FiniteSets, TLC

VARIABLES
    clock,                  \* the last reading of time.time()
    clock_steps,            \* the steps the clock takes between two readings
    camera_faces,           \* what the face detector may find in a frame
    \* ---- BlinkDetector (src/blink_detection.py:34-41)
    blink_last_alert_time,  \* BlinkDetector.last_alert_time
    last_eye_state_open,    \* Optional[bool]
    eye_closed_start,       \* Optional[float]
    recent_blinks,          \* sliding window of blink timestamps
    all_blinks,             \* every blink of the session
    blink_info,             \* the dict returned by the last update
    \* ---- history of the BlinkDetector.update calls (observer only)
    blink_calls,            \* number of update calls so far
    blink_call,             \* what the last update call was given and found
    closed_run,             \* the run of closed observations in progress
    blink_alert_log,        \* `now` of the last two updates that alerted
    \* ---- PostureDetector (src/posture_detection.py:30-37)
    posture_last_alert_time,\* PostureDetector.last_alert_time
    poor_since,             \* Optional[float]
    current_state,          \* "unknown", "good" or "poor"
    poor_posture_seconds,   \* accumulated poor time
    last_update_time,       \* PostureDetector._last_update_time
    alert_count,            \* number of posture alerts
    posture_info,           \* the dict returned by the last update
    \* ---- history of the PostureDetector.update calls (observer only)
    posture_calls,          \* number of update calls so far
    posture_call,           \* what the last update call was given
    poor_run,               \* the run of poor classifications in progress
    posture_first_call,     \* `now` of the first update call
    posture_all_poor,       \* every update so far was classified poor
    posture_alerts_returned,\* number of updates that returned an alert
    \* ---- MonitorThread (src/main.py:97-129) and the locals of run()
    pc,                     \* where run() is
    stop_event,             \* threading.Event: set or not
    cap,                    \* the cv2.VideoCapture handle
    last_frame_time,        \* Optional[float]
    continuous_face_time,
    last_face_seen_time,    \* Optional[float]
    last_distance_alert_time,
    too_close_events,
    break_alerts,
    break_interval_seconds,
    loop_now,               \* run(): now = time.time() of the cycle
    loop_dt,                \* run(): dt, the inter-frame delta of the cycle
    face,                   \* run(): the largest face of the cycle, if any
    \* ---- the event queue shared with the window (src/main.py:979)
    event_queue,
    \* ---- history of the loop and of the queue (observer only)
    published,              \* number of _post_event calls so far
    consumed,               \* publication numbers in the order dequeued
    cycles,                 \* number of cycles the loop has started
    raised,                 \* run() was left by an exception
    stop_in_cycle,          \* stop() was first called while a cycle was in flight
    timers_step,            \* the last timer update of a cycle
    face_seen_at,           \* `now` of the last cycle that saw a face
    cycle_log,              \* the events posted since the last cycle began
    cycle_stage,            \* how far the last cycle got in finding a face
    distance_step,          \* the last distance report of a cycle
    \* ---- MonitorThread.get_session_stats, called by the window
    session_stats,          \* the record it returned, if it was called
    \* ---- _estimate_distance_cm called on its own
    estimate_arg,           \* the face width it was given
    estimate_result,        \* what it returned
    \* ---- VisionMateWindow (src/main.py:973-1002, 1127-1153)
    monitoring_active,      \* bool
    monitor_thread,         \* Optional[MonitorThread]: the thread's number
    break_seconds,          \* the break interval the spinners stand for
    break_spin,             \* the hours, minutes and seconds spinners
    \* ---- the sessions of a window: its MonitorThread objects, each
    \* followed through run() by position only
    threads,                \* every MonitorThread created so far, by number
    joining,                \* the thread stop_monitoring is waiting for
    error_stop,             \* the last stop an error event caused (observer)
    \* ---- what the window displays (src/main.py:991-996, 1198-1237)
    status_text,            \* "Monitoring: ON" or "Monitoring: OFF"
    distance_text,          \* the distance shown, in tenths of a cm, or None
                            \* for "Distance: No face detected"
    current_emoji,          \* the emoji shown, by name
    blink_text,             \* the blink rate shown, in tenths, or None for
                            \* "Blink rate: --"
    posture_text,           \* "Posture: Unknown", "Posture: Good" or
                            \* "Posture: Poor"
    \* ---- VisionTestDialog (src/main.py:310-336)
    dialog,                 \* "open", "accepted" or "rejected"
    current_index,          \* index of the item shown
    responses,              \* the responses recorded in this run
    viewing_active,         \* VisionTestDialog._viewing_active
    viewing_index,          \* VisionTestDialog._viewing_index
    text_label,             \* the item whose text the label shows, or None
    countdown_active,       \* _countdown_timer.isActive()
    hide_timers,            \* the items whose single-shot timer is pending
    last_fired,             \* the last single-shot timer that fired, and the
                            \* item shown then (observer only)
    \* ---- EyeTestPage (src/eye_test_page.py:45-68)
    page_shown,             \* the window's stack shows the eye test page
    test_state,             \* EyeTestPage._state
    results,                \* EyeTestPage._results
    question_index,         \* EyeTestPage._current_index
    question_active,        \* EyeTestPage._question_active
    remaining_ms,           \* EyeTestPage._remaining_ms
    timeout_reached,        \* EyeTestPage._timeout_reached
    in_result_screen,       \* EyeTestPage._in_result_screen
    page_countdown_active,  \* EyeTestPage._countdown_timer.isActive()
    vision_log,             \* the vision_test entries given to the logger
    \* ---- history of the test runs (observer only)
    runs,                   \* number of start_test calls so far
    finished_runs           \* number of runs that reached _finish_test

None == << >>
Some(v) == << v >>
IsNone(o) == o = << >>
Val(o) == o[1]

Max(a, b) == IF a >= b THEN a ELSE b

RECURSIVE IsSorted(_)
IsSorted(s) ==
    IF Len(s) <= 1 THEN TRUE
    ELSE s[1] <= s[2] /\ IsSorted(Tail(s))

IsSuffix(s, t) ==
    /\ Len(s) <= Len(t)
    /\ \A i \in 1..Len(s) : s[i] = t[Len(t) - Len(s) + i]

IsPrefix(s, t) ==
    /\ Len(s) <= Len(t)
    /\ \A i \in 1..Len(s) : s[i] = t[i]

(***************************************************************************)
(* Bounds of the exploration.                                              *)
(***************************************************************************)
MaxBlinkCalls == 7
MaxPostureCalls == 5
MaxCycles == 2
MaxFaceWidth == 160
MaxSessions == 2
ScenarioBlinks == 20

(***************************************************************************)
(* Program constants, in ticks of 0.05 s where they are times.             *)
(***************************************************************************)
min_blinks_per_minute == 12             \* 12.0 blinks per minute
blink_alert_cooldown_seconds == 12000   \* 600.0 s
blink_min_closed == 1                   \* 0.05 s
blink_max_closed == 16                  \* 0.8 s
window_seconds == 1200                  \* 60.0 s
ticks_per_minute == 1200                \* the factor 60.0 of the rate
min_rate_span == 20                     \* max(..., 1.0): 1 s
min_observation_time == 600             \* 30.0 s
tilt_threshold == 3                     \* 0.3, in tenths
min_poor_duration == 60                 \* 3.0 s
posture_alert_cooldown_seconds == 12000 \* 600.0 s
frame_height == 480                     \* CAP_PROP_FRAME_HEIGHT
frame_width == 640                      \* CAP_PROP_FRAME_WIDTH
min_distance_cm == 40                   \* 40.0 cm
default_break_interval_seconds == 42000 \* 2100.0 s
default_break_seconds == 42000          \* VisionMateWindow.break_seconds
reference_face_width_px == 150          \* 150.0 px
reference_distance_cm == 60             \* 60.0 cm
absence_reset_seconds == 6000           \* 300.0 s
distance_alert_cooldown == 100          \* 5.0 s
queue_maxsize == 0                      \* queue.Queue(): maxsize 0, no limit
min_duration_per_minute == 1000         \* 1e-3 minute is 1 / 1000 minute

\* time.time() when the program starts: seconds since 1970 lie far above
\* every cooldown, and the largest cooldown is the smallest such reading
\* that matters to the code.
ClockOrigin == blink_alert_cooldown_seconds

\* one second, in ticks
TicksPerSecond == ticks_per_minute \div 60

\* The clock advances between two readings by one of the steps of the
\* caller's cadence, which is fixed for a run: a fast caller sees the
\* sub-second thresholds (0.05 s, 0.3 s, 0.75 s), a slow one the windows
\* and cooldowns (0.3 s, 30 s, 600 s).
FastSteps == {1, 6, 15}
SlowSteps == {6, 600, 12000}
\* the posture debounce: 0.3 s, 2.7 s (0.3 s short of 3 s), 600 s
DebounceSteps == {6, 54, 12000}

\* the absence timer: frames 299 s (1 s short of 300 s) and 300 s apart
AbsenceSteps == {5980, 6000}

\* the distance cooldown: frames 4 s (1 s short of 5 s) and 5 s apart
CooldownSteps == {80, 100}

\* the break interval: frames half the default interval apart (1050 s),
\* and 1 s less
BreakSteps == {20980, 21000}

\* Face rectangles (x, y, w, h) the face detector returns in a 640 x 480
\* frame (minSize 80 x 80, inside the frame):
\*   FaceCentred  150 px wide, centre at the frame centre (y = 240)
\*   FaceAtTilt   centre at y = 312: offset exactly 0.3
\*   FaceLow      centre at y = 432 = 0.9 * 480: offset 0.8
\*   FaceHigh     centre at y = 90, above the frame centre: offset -0.625
\*   FaceClose    300 px wide, centre at the frame centre
\*   FaceNearLow  300 px wide, centre at y = 330: offset 0.375
FaceCentred == [x |-> 245, y |-> 165, w |-> 150, h |-> 150]
FaceAtTilt == [x |-> 245, y |-> 237, w |-> 150, h |-> 150]
FaceLow == [x |-> 272, y |-> 384, w |-> 96, h |-> 96]
FaceClose == [x |-> 170, y |-> 90, w |-> 300, h |-> 300]
FaceHigh == [x |-> 245, y |-> 15, w |-> 150, h |-> 150]
FrameShape == <<frame_height, frame_width>>

\* the faces the face detector finds in a frame: none, or the largest one
LoopFaces == {None, Some(FaceCentred), Some(FaceClose)}

\* the viewer who stays in front of the camera, low in the frame and
\* close to it (300 px wide, centre at y = 330: offset 0.375), with frames
\* 0.3 s and 30 s apart and a break interval of 30 s
FaceNearLow == [x |-> 170, y |-> 180, w |-> 300, h |-> 300]
ViewingFaces == {Some(FaceNearLow)}
ViewingSteps == {6, 600}

\* a face is lost and found again: no face in the frame, or a face low in
\* the frame (poor posture); frames 0.2 s and 3 s apart
GapFaces == {None, Some(FaceLow)}
GapSteps == {4, 60}

-----------------------------------------------------------------------------
(***************************************************************************)
(* BlinkDetector                                                           *)
(***************************************************************************)

BlinkInit ==
    /\ blink_last_alert_time = 0
    /\ last_eye_state_open = None
    /\ eye_closed_start = None
    /\ recent_blinks = << >>
    /\ all_blinks = << >>
    /\ blink_info = [blink_rate_bpm |-> <<0, 1>>, low_blink_alert |-> FALSE]

\* (a slip: the bounds taken as inclusive)
IsBlinkDuration_Inclusive(closed_duration) ==
    blink_min_closed <= closed_duration /\ closed_duration <= blink_max_closed

\* 0.05 < closed_duration < 0.8
IsBlinkDuration(closed_duration) ==
    blink_min_closed < closed_duration /\ closed_duration < blink_max_closed

\* (a slip: an entry exactly 60 s old is dropped)
PruneWindow_Strict(blinks, now) ==
    SelectSeq(blinks, LAMBDA t : now - t < window_seconds)

\* [t for t in self.recent_blinks if now - t <= window_seconds]
PruneWindow(blinks, now) ==
    SelectSeq(blinks, LAMBDA t : now - t <= window_seconds)

\* (a slip: the span is not floored at 1 s)
BlinkRate_NoFloor(recent, now) ==
    IF recent = << >> THEN <<0, 1>>
    ELSE <<Len(recent) * ticks_per_minute, now - recent[1]>>

\* blink_rate_bpm as the exact fraction << numerator, denominator >>:
\* len(recent) * 60.0 / max(now - recent[0], 1.0), or 0.0 on an empty window
BlinkRate(recent, now) ==
    IF recent = << >> THEN <<0, 1>>
    ELSE <<Len(recent) * ticks_per_minute, Max(now - recent[1], min_rate_span)>>

RateIsPositive(rate) == rate[1] > 0
RateBelow(rate, bpm) == rate[1] < bpm * rate[2]

\* (a slip: the cooldown is not looked at)
BlinkCooldownElapsed_Ignored(now, last) == now >= last

\* now - self.last_alert_time >= self.alert_cooldown_seconds
BlinkCooldownElapsed(now, last) == now - last >= blink_alert_cooldown_seconds

\* (a slip: the observation time has to exceed 30 s)
LowBlinkAlert_ObservationStrict(recent, now, last) ==
    LET observation_time == IF recent # << >> THEN now - recent[1] ELSE 0
        rate == BlinkRate(recent, now)
    IN  /\ observation_time > min_observation_time
        /\ RateIsPositive(rate)
        /\ RateBelow(rate, min_blinks_per_minute)
        /\ BlinkCooldownElapsed(now, last)

\* the low-blink decision of one update (lines 116-122)
LowBlinkAlert(recent, now, last) ==
    LET observation_time == IF recent # << >> THEN now - recent[1] ELSE 0
        rate == BlinkRate(recent, now)
    IN  /\ observation_time >= min_observation_time
        /\ RateIsPositive(rate)
        /\ RateBelow(rate, min_blinks_per_minute)
        /\ BlinkCooldownElapsed(now, last)

\* (a slip: a closed observation with no observation before it starts a
\* closure too)
EyeClosedStartNext_FirstClosureCounted(prev_open, eyes_open, now) ==
    IF prev_open # Some(FALSE) /\ ~eyes_open THEN Some(now)
    ELSE IF prev_open = Some(FALSE) /\ eyes_open THEN None
    ELSE eye_closed_start

\* eye_closed_start after the update: now on `prev_open is True and not
\* eyes_open`, None on `prev_open is False and eyes_open` (where it is
\* None already or cleared by line 100), else as it was
EyeClosedStartNext(prev_open, eyes_open, now) ==
    IF prev_open = Some(TRUE) /\ ~eyes_open THEN Some(now)
    ELSE IF prev_open = Some(FALSE) /\ eyes_open THEN None
    ELSE eye_closed_start

\* BlinkDetector.update from line 84 on: eyes_open is len(eyes) > 0.  The
\* two early returns above it (no eye model, empty face region) change
\* nothing; a face found by the face detector is at least 80 x 80 and lies
\* inside the frame, so its region is never empty.
BlinkDetector_update(eyes_open, now) ==
    LET prev_open == last_eye_state_open
        closing == prev_open = Some(TRUE) /\ ~eyes_open
        opening == prev_open = Some(FALSE) /\ eyes_open
        is_blink == /\ opening
                    /\ ~IsNone(eye_closed_start)
                    /\ IsBlinkDuration(now - Val(eye_closed_start))
        appended_recent == IF is_blink THEN Append(recent_blinks, now)
                           ELSE recent_blinks
        recent == PruneWindow(appended_recent, now)
        alert == LowBlinkAlert(recent, now, blink_last_alert_time)
    IN  /\ last_eye_state_open' = Some(eyes_open)
        /\ eye_closed_start' = EyeClosedStartNext(prev_open, eyes_open, now)
        /\ all_blinks' = IF is_blink THEN Append(all_blinks, now) ELSE all_blinks
        /\ recent_blinks' = recent
        /\ blink_last_alert_time' = IF alert THEN now ELSE blink_last_alert_time
        /\ blink_info' = [blink_rate_bpm |-> BlinkRate(recent, now),
                          low_blink_alert |-> alert]

blink_vars == <<blink_last_alert_time, last_eye_state_open, eye_closed_start,
                recent_blinks, all_blinks, blink_info>>

(***************************************************************************)
(* The observer of the update calls.  It reads the arguments of a call and *)
(* the detector's lists before the call, never the detector's own          *)
(* open/closed bookkeeping.                                                *)
(*   closed_run: the run of consecutive closed observations in progress,   *)
(*     its first observation's time and whether an open observation came   *)
(*     right before it;                                                    *)
(*   blink_call.ended: the closed run this call ended (an open observation *)
(*     after closed ones), or None.                                        *)
(***************************************************************************)
BlinkHistoryInit ==
    /\ blink_calls = 0
    /\ blink_call = [now |-> ClockOrigin, eyes_open |-> TRUE, ended |-> None,
                     all_before |-> << >>, recent_before |-> << >>,
                     last_alert_before |-> 0]
    /\ closed_run = None
    /\ blink_alert_log = << >>

BlinkHistoryStep(eyes_open, now) ==
    /\ blink_calls' = blink_calls + 1
    /\ closed_run' =
          IF eyes_open THEN None
          ELSE IF IsNone(closed_run)
               THEN Some([start |-> now,
                          after_open |-> blink_calls > 0 /\ blink_call.eyes_open])
               ELSE closed_run
    /\ blink_call' = [now |-> now, eyes_open |-> eyes_open,
                      ended |-> IF eyes_open THEN closed_run ELSE None,
                      all_before |-> all_blinks,
                      recent_before |-> recent_blinks,
                      last_alert_before |-> blink_last_alert_time]
    /\ blink_alert_log' =
          IF blink_info'.low_blink_alert
          THEN (IF Len(blink_alert_log) = 2 THEN Tail(blink_alert_log)
                ELSE blink_alert_log) \o <<now>>
          ELSE blink_alert_log

blink_history == <<blink_calls, blink_call, closed_run, blink_alert_log>>

-----------------------------------------------------------------------------
(***************************************************************************)
(* PostureDetector                                                         *)
(***************************************************************************)

PostureInit ==
    /\ posture_last_alert_time = 0
    /\ poor_since = None
    /\ current_state = "unknown"
    /\ poor_posture_seconds = 0
    /\ last_update_time = None
    /\ alert_count = 0
    /\ posture_info = [state |-> "unknown", posture_alert |-> FALSE]

\* norm_offset_y = (cy - height / 2.0) / (height / 2.0) with
\* cy = y + h / 2.0, as the exact fraction << numerator, denominator >>
NormOffsetY(face_rect, frame_shape) ==
    LET height == frame_shape[1]
    IN  <<2 * face_rect.y + face_rect.h - height, height>>

\* (a slip: an offset equal to the threshold counts as poor)
IsPoor_AtThreshold(face_rect, frame_shape) ==
    LET off == NormOffsetY(face_rect, frame_shape)
    IN  10 * off[1] >= tilt_threshold * off[2]

\* poor = norm_offset_y > self.tilt_threshold
IsPoor(face_rect, frame_shape) ==
    LET off == NormOffsetY(face_rect, frame_shape)
    IN  10 * off[1] > tilt_threshold * off[2]

\* (a slip: a good classification leaves poor_since as it is)
PoorSinceNext_NoReset(poor, now) ==
    IF IsNone(poor_since) /\ poor THEN Some(now) ELSE poor_since

\* (a slip: every poor update stamps poor_since anew)
PoorSinceNext_Restamped(poor, now) == IF poor THEN Some(now) ELSE None

\* poor_since after the update: set on entering poor, kept while poor,
\* cleared by good (lines 85-87, 97-98)
PoorSinceNext(poor, now) ==
    IF poor
    THEN IF IsNone(poor_since) THEN Some(now) ELSE poor_since
    ELSE None

\* (a slip: the streak has to exceed the minimum)
MinPoorDurationReached_Strict(now, since) == now - since > min_poor_duration

\* now - self.poor_since >= self.min_poor_duration
MinPoorDurationReached(now, since) == now - since >= min_poor_duration

\* (a slip: the update that enters poor already adds the time since the
\* previous update)
AccumulatesPoorTime_OnEntry(poor, since) == poor

\* the else branch of `if self.poor_since is None` under `if poor`: the
\* update adds dt to poor_posture_seconds (lines 85-89)
AccumulatesPoorTime(poor, since) == poor /\ ~IsNone(since)

\* (a slip: the cooldown is not looked at)
PostureCooldownElapsed_Ignored(now, last) == now >= last

\* now - self.last_alert_time >= self.alert_cooldown_seconds
PostureCooldownElapsed(now, last) ==
    now - last >= posture_alert_cooldown_seconds

\* (a slip: the time added is the loop's inter-frame delta, which does
\* not reach back over frames without a face)
UpdateDelta_SinceLastFrame(now) == loop_dt

\* dt of an update: 0.0 on the first one, else
\* max(0.0, now - self._last_update_time) (lines 77-80)
UpdateDelta(now) ==
    IF IsNone(last_update_time) THEN 0
    ELSE Max(0, now - Val(last_update_time))

\* PostureDetector.update
PostureDetector_update(face_rect, frame_shape, now) ==
    LET poor == IsPoor(face_rect, frame_shape)
        dt == UpdateDelta(now)
        streak == poor /\ ~IsNone(poor_since)
        alert == /\ streak
                 /\ MinPoorDurationReached(now, Val(poor_since))
                 /\ PostureCooldownElapsed(now, posture_last_alert_time)
        state == IF poor THEN "poor" ELSE "good"
    IN  /\ last_update_time' = Some(now)
        /\ poor_since' = PoorSinceNext(poor, now)
        /\ poor_posture_seconds' =
              IF AccumulatesPoorTime(poor, poor_since)
              THEN poor_posture_seconds + dt ELSE poor_posture_seconds
        /\ posture_last_alert_time' =
              IF alert THEN now ELSE posture_last_alert_time
        /\ alert_count' = IF alert THEN alert_count + 1 ELSE alert_count
        /\ current_state' = state
        /\ posture_info' = [state |-> state, posture_alert |-> alert]

posture_vars == <<posture_last_alert_time, poor_since, current_state,
                  poor_posture_seconds, last_update_time, alert_count,
                  posture_info>>

(***************************************************************************)
(* The observer of the posture updates.  It classifies each call's face    *)
(* rectangle and keeps, from the classifications alone:                    *)
(*   poor_run: the uninterrupted run of poor classifications in progress,  *)
(*     the `now` of its first update and whether a good classification     *)
(*     came right before it;                                               *)
(*   posture_call: the arguments of the last call and, read before the     *)
(*     call, the time of the call before it, whether that call was         *)
(*     classified poor, and the seconds accumulated so far.                *)
(***************************************************************************)
PostureHistoryInit ==
    /\ posture_calls = 0
    /\ posture_call = [now |-> ClockOrigin, poor |-> FALSE,
                       face_rect |-> FaceCentred, frame_shape |-> FrameShape,
                       prev |-> None, prev_poor |-> FALSE,
                       seconds_before |-> 0]
    /\ poor_run = None
    /\ posture_first_call = None
    /\ posture_all_poor = TRUE
    /\ posture_alerts_returned = 0

PostureHistoryStep(face_rect, frame_shape, now) ==
    LET poor == IsPoor(face_rect, frame_shape)
    IN  /\ posture_calls' = posture_calls + 1
        /\ posture_call' =
              [now |-> now, poor |-> poor,
               face_rect |-> face_rect, frame_shape |-> frame_shape,
               prev |-> IF posture_calls = 0 THEN None
                        ELSE Some(posture_call.now),
               prev_poor |-> posture_calls > 0 /\ posture_call.poor,
               seconds_before |-> poor_posture_seconds]
        /\ poor_run' =
              IF ~poor THEN None
              ELSE IF IsNone(poor_run)
                   THEN Some([start |-> now, after_good |-> posture_calls > 0])
                   ELSE poor_run
        /\ posture_first_call' =
              IF posture_calls = 0 THEN Some(now) ELSE posture_first_call
        /\ posture_all_poor' = (posture_all_poor /\ poor)
        /\ posture_alerts_returned' =
              IF posture_info'.posture_alert THEN posture_alerts_returned + 1
              ELSE posture_alerts_returned

posture_history == <<posture_calls, posture_call, poor_run, posture_first_call,
                     posture_all_poor, posture_alerts_returned>>

-----------------------------------------------------------------------------
(***************************************************************************)
(* The event queue: queue.Queue() and MonitorThread._post_event            *)
(***************************************************************************)

\* (a slip: the queue was made with a maxsize, and a put on a full queue is
\* swallowed)
QueuePut_Bounded(q, item) ==
    IF Len(q) >= 4 THEN q ELSE Append(q, item)

\* Queue.put(item, block=False) inside _post_event: queue.Full is raised
\* when maxsize > 0 and the queue holds maxsize items, and _post_event
\* swallows it; otherwise the item is appended.
QueuePut(q, item) ==
    IF queue_maxsize > 0 /\ Len(q) >= queue_maxsize THEN q
    ELSE Append(q, item)

\* An event is the tuple (name, payload) of the code; seq is the number of
\* the _post_event call that made it, kept to tell equal events apart.
Event(name, payload) == [name |-> name, payload |-> payload]

\* a run of _post_event calls, in order, on queue q after n earlier calls
RECURSIVE PostEvents(_, _, _)
PostEvents(q, n, events) ==
    IF events = << >> THEN q
    ELSE PostEvents(QueuePut(q, [name |-> events[1].name,
                                 payload |-> events[1].payload,
                                 seq |-> n + 1]),
                    n + 1, Tail(events))

\* MonitorThread._post_event, called once for each event of `events`
Post(events) ==
    /\ event_queue' = PostEvents(event_queue, published, events)
    /\ published' = published + Len(events)
    /\ cycle_log' = cycle_log \o events

channel == <<event_queue, published, cycle_log>>

-----------------------------------------------------------------------------
(***************************************************************************)
(* MonitorThread                                                           *)
(***************************************************************************)

MonitorInit ==
    /\ pc = "start"
    /\ stop_event = FALSE
    /\ cap = "none"
    /\ last_frame_time = None
    /\ continuous_face_time = 0
    /\ last_face_seen_time = None
    /\ last_distance_alert_time = 0
    /\ too_close_events = 0
    /\ break_alerts = 0
    /\ break_interval_seconds = break_seconds
    /\ loop_now = ClockOrigin
    /\ loop_dt = 0
    /\ face = None
    /\ event_queue = << >>

MonitorHistoryInit ==
    /\ published = 0
    /\ consumed = << >>
    /\ cycles = 0
    /\ raised = FALSE
    /\ stop_in_cycle = FALSE
    /\ timers_step = [face |-> TRUE, before |-> 0, now |-> ClockOrigin,
                      seen |-> None, break_alerts |-> 0]
    /\ face_seen_at = None
    /\ cycle_log = << >>
    /\ cycle_stage = "none"
    /\ distance_step = [now |-> ClockOrigin, width |-> reference_face_width_px,
                        prev_warning |-> None, before |-> 0, warned |-> FALSE]

monitor_vars == <<pc, stop_event, cap, last_frame_time, continuous_face_time,
                  last_face_seen_time, last_distance_alert_time,
                  too_close_events, break_alerts, break_interval_seconds,
                  loop_now, loop_dt, face>>
monitor_history == <<cycles, raised, stop_in_cycle, timers_step, face_seen_at>>
cycle_history == <<cycle_stage, distance_step>>
call_vars == <<session_stats, estimate_arg, estimate_result>>
display == <<status_text, distance_text, current_emoji, blink_text,
             posture_text>>
dialog_vars == <<dialog, current_index, responses, viewing_active,
                 viewing_index, text_label, countdown_active, hide_timers,
                 last_fired>>
page_vars == <<page_shown, test_state, results, question_index,
               question_active, remaining_ms, timeout_reached,
               in_result_screen, page_countdown_active, vision_log>>
page_history == <<runs, finished_runs>>
test_vars == <<dialog_vars, page_vars, page_history>>
session_vars == <<threads, joining, error_stop, display, test_vars>>
window_vars == <<monitoring_active, monitor_thread, break_seconds, break_spin,
                 session_vars>>
detector_vars == <<blink_vars, blink_history, posture_vars, posture_history>>

vars == <<clock, clock_steps, blink_vars, blink_history,
          posture_vars, posture_history,
          monitor_vars, channel, consumed, monitor_history,
          cycle_history, call_vars, camera_faces, window_vars>>

\* a MonitorThread as its constructor leaves it, with its BlinkDetector()
\* and PostureDetector(), and the window's empty event queue
Constructed ==
    /\ clock = ClockOrigin
    /\ BlinkInit
    /\ BlinkHistoryInit
    /\ PostureInit
    /\ PostureHistoryInit
    /\ MonitorInit
    /\ MonitorHistoryInit
    /\ session_stats = None
    /\ estimate_arg = None
    /\ estimate_result = None

\* the spinners that stand for a break interval of `total` ticks
\* (lines 1142-1149)
SpinnersOf(total) ==
    LET secs == total \div TicksPerSecond
    IN  [hours |-> secs \div 3600,
         minutes |-> (secs % 3600) \div 60,
         seconds |-> (secs % 3600) % 60]

\* EyeTestPage.__init__ (src/eye_test_page.py:45-68), which is also how
\* the window is before the page is made: nothing shown, no run
PageConstructed ==
    /\ page_shown = FALSE
    /\ test_state = "IDLE"
    /\ results = << >>
    /\ question_index = -1
    /\ question_active = FALSE
    /\ remaining_ms = 0
    /\ timeout_reached = FALSE
    /\ in_result_screen = FALSE
    /\ page_countdown_active = FALSE
    /\ vision_log = << >>
    /\ runs = 0
    /\ finished_runs = 0

\* no VisionTestDialog has been made
NoDialog ==
    /\ dialog = "none"
    /\ current_index = -1
    /\ responses = << >>
    /\ viewing_active = FALSE
    /\ viewing_index = None
    /\ text_label = None
    /\ countdown_active = FALSE
    /\ hide_timers = {}
    /\ last_fired = None

\* no vision test has been opened
NoVisionTest == NoDialog /\ PageConstructed

\* the display after VisionMateWindow.__init__ (lines 989-996); the emojis
\* are named: "sleeping", "smiling", "neutral", "angry"
DisplayInit ==
    /\ status_text = "Monitoring: OFF"
    /\ distance_text = None
    /\ current_emoji = "sleeping"
    /\ blink_text = None
    /\ posture_text = "Posture: Unknown"

\* the display after the first start_monitoring (lines 1312-1313)
DisplayStarted ==
    /\ status_text = "Monitoring: ON"
    /\ distance_text = None
    /\ current_emoji = "smiling"
    /\ blink_text = None
    /\ posture_text = "Posture: Unknown"

\* start_monitoring with break_seconds = interval has just created and
\* started thread number 1: a MonitorThread with its BlinkDetector() and
\* PostureDetector(), on the window's empty event queue
Started(interval) ==
    /\ break_seconds = interval
    /\ break_spin = SpinnersOf(interval)
    /\ monitoring_active = TRUE
    /\ monitor_thread = Some(1)
    /\ threads = << >>
    /\ joining = None
    /\ error_stop = None
    /\ DisplayStarted
    /\ NoVisionTest
    /\ Constructed

\* the state after construction with the window's defaults, in front of a
\* camera that shows no face, a centred face or a close one
Init ==
    /\ camera_faces = LoopFaces
    /\ Started(default_break_seconds)

-----------------------------------------------------------------------------
(***************************************************************************)
(* SpecBlink: a BlinkDetector under every sequence of update calls, each   *)
(* at a later (or the same) clock reading with eyes seen or not.           *)
(***************************************************************************)
BlinkUpdate ==
    /\ blink_calls < MaxBlinkCalls
    /\ \E d \in clock_steps, eyes_open \in BOOLEAN :
          /\ clock' = clock + d
          /\ BlinkDetector_update(eyes_open, clock')
          /\ BlinkHistoryStep(eyes_open, clock')
    /\ UNCHANGED <<call_vars, window_vars, camera_faces>>
    /\ UNCHANGED <<cycle_history, clock_steps,
                   posture_vars, posture_history,
                   monitor_vars, channel, consumed, monitor_history>>

NextBlink == BlinkUpdate

InitBlink == clock_steps \in {FastSteps, SlowSteps} /\ Init

SpecBlink == InitBlink /\ [][NextBlink]_vars

-----------------------------------------------------------------------------
(***************************************************************************)
(* Claims about the BlinkDetector                                          *)
(***************************************************************************)

\* the closed run the last update ended lasted d ticks, from its first
\* closed observation to the open observation that ended it
EndedClosure == ~IsNone(blink_call.ended)
ClosureDuration == blink_call.now - Val(blink_call.ended).start
ClosureAfterOpen == Val(blink_call.ended).after_open

\* the last update appended its `now` to both lists / appended nothing
BlinkRecorded ==
    /\ all_blinks = Append(blink_call.all_before, blink_call.now)
    /\ recent_blinks # << >>
    /\ recent_blinks[Len(recent_blinks)] = blink_call.now
    /\ IsSuffix(SubSeq(recent_blinks, 1, Len(recent_blinks) - 1),
                blink_call.recent_before)
NothingRecorded ==
    /\ all_blinks = blink_call.all_before
    /\ IsSuffix(recent_blinks, blink_call.recent_before)

\* C1 as stated: every eye closure (closed observations ended by an open
\* one, d from the first closed observation to the open one) records one
\* blink in both lists iff 0.05 s < d < 0.8 s, and an update that ends no
\* closure records nothing.
C1_EveryClosureRecordedIffBlinkShaped ==
    blink_calls > 0 =>
        IF EndedClosure
        THEN IF blink_min_closed < ClosureDuration
                /\ ClosureDuration < blink_max_closed
             THEN BlinkRecorded
             ELSE NothingRecorded
        ELSE NothingRecorded

\* C1 amended: a closure whose first closed observation directly follows
\* an open observation records one blink, stamped with the time of the
\* open observation that ends it, in both lists iff 0.05 s < d < 0.8 s
\* (d = 0.05 s and d = 0.8 s record nothing); a closure that starts with
\* the detector's very first observation records nothing whatever d is;
\* an update that ends no closure records nothing.
C1_ClosureAfterOpenRecordedIffBlinkShaped ==
    blink_calls > 0 =>
        IF EndedClosure /\ ClosureAfterOpen
        THEN IF blink_min_closed < ClosureDuration
                /\ ClosureDuration < blink_max_closed
             THEN BlinkRecorded
             ELSE NothingRecorded
        ELSE NothingRecorded

\* C1 witness: open, closed, open 0.3 s (6 ticks) after the closed
\* observation: exactly one blink, stamped with the opening time.
C1_Witness ==
    /\ blink_calls = 3
    /\ EndedClosure /\ ClosureAfterOpen /\ ClosureDuration = 6
    /\ all_blinks = <<blink_call.now>>
    /\ recent_blinks = <<blink_call.now>>

\* C2: after any update(now), recent_blinks holds exactly the timestamps
\* t of all_blinks with now - t <= 60 s, it is a suffix of all_blinks, both
\* lists are non-decreasing, and all_blinks extends what it was before the
\* update.
C2_WindowIsTrailingSixtySeconds ==
    blink_calls > 0 =>
        /\ recent_blinks =
              SelectSeq(all_blinks,
                        LAMBDA t : blink_call.now - t <= window_seconds)
        /\ IsSuffix(recent_blinks, all_blinks)
        /\ IsSorted(all_blinks)
        /\ IsSorted(recent_blinks)
        /\ IsPrefix(blink_call.all_before, all_blinks)

\* C2 witness: the update dropped a stale blink and kept a blink that is
\* exactly 60 s old.
C2_Witness ==
    /\ blink_calls > 0
    /\ Len(recent_blinks) < Len(blink_call.recent_before)
    /\ recent_blinks # << >>
    /\ blink_call.now - recent_blinks[1] = window_seconds

\* C3: two updates that both return low_blink_alert = true are at least
\* alert_cooldown_seconds apart.
C3_LowBlinkAlertsCooldownApart ==
    Len(blink_alert_log) = 2 =>
        blink_alert_log[2] - blink_alert_log[1] >= blink_alert_cooldown_seconds

\* C3 witness: a second low-blink alert has been returned.
C3_Witness ==
    /\ Len(blink_alert_log) = 2
    /\ blink_info.low_blink_alert

-----------------------------------------------------------------------------
(***************************************************************************)
(* SpecPosture: a PostureDetector under every sequence of update calls on  *)
(* a 640 x 480 frame.                                                      *)
(***************************************************************************)
PostureFaces == {FaceHigh, FaceCentred, FaceAtTilt, FaceLow}

PostureUpdate ==
    /\ posture_calls < MaxPostureCalls
    /\ \E d \in clock_steps, face_rect \in PostureFaces :
          /\ clock' = clock + d
          /\ PostureDetector_update(face_rect, FrameShape, clock')
          /\ PostureHistoryStep(face_rect, FrameShape, clock')
    /\ UNCHANGED <<call_vars, window_vars, camera_faces>>
    /\ UNCHANGED <<cycle_history, clock_steps,
                   blink_vars, blink_history,
                   monitor_vars, channel, consumed, monitor_history>>

NextPosture == PostureUpdate

InitPosture == clock_steps = DebounceSteps /\ Init

SpecPosture == InitPosture /\ [][NextPosture]_vars

(***************************************************************************)
(* Claims about the PostureDetector                                        *)
(***************************************************************************)

\* C4: posture_alert = true is returned only by an update classified poor
\* whose poor_since is the start of the current uninterrupted run of poor
\* classifications, with now - poor_since >= min_poor_duration; one good
\* classification ends the run, so after good then poor no alert fires
\* before a further min_poor_duration of uninterrupted poor.
C4_AlertOnlyAfterContinuousPoorStreak ==
    posture_info.posture_alert =>
        /\ posture_call.poor
        /\ ~IsNone(poor_run)
        /\ poor_since = Some(Val(poor_run).start)
        /\ posture_call.now - Val(poor_run).start >= min_poor_duration

\* C4 witness: an alert in a run of poor classifications that began right
\* after a good one, exactly min_poor_duration into the run.
C4_Witness ==
    /\ posture_info.posture_alert
    /\ ~IsNone(poor_run)
    /\ Val(poor_run).after_good
    /\ posture_call.now - Val(poor_run).start = min_poor_duration

\* the span of the updates so far: from the first update to the last
PostureSpan == posture_call.now - Val(posture_first_call)
TenSeconds == 10 * 20   \* 10 s

\* C5: on a fresh detector with default parameters, while every update of
\* a span of at most 10 s is classified poor: at most one update has
\* returned posture_alert = true, an update that returns it is at least
\* 3 s into the streak, and once an update is at least 3 s into the streak
\* exactly one alert has been returned.
C5_ExactlyOneAlertInPoorSpan ==
    (posture_calls > 0 /\ posture_all_poor /\ PostureSpan <= TenSeconds) =>
        /\ posture_alerts_returned <= 1
        /\ posture_info.posture_alert => PostureSpan >= min_poor_duration
        /\ PostureSpan >= min_poor_duration => posture_alerts_returned = 1

\* C5 witness: poor throughout, the alert was returned by an earlier
\* update of the span and the last update, still poor, returned none.
C5_Witness ==
    /\ posture_calls > 0 /\ posture_all_poor /\ PostureSpan <= TenSeconds
    /\ PostureSpan > min_poor_duration
    /\ posture_alerts_returned = 1
    /\ ~posture_info.posture_alert
    /\ posture_call.poor

-----------------------------------------------------------------------------
(***************************************************************************)
(* MonitorThread.run, step by step.  The window's thread runs between any  *)
(* two steps; a step holds at most one block of the cycle.  time.sleep at  *)
(* the end of a cycle is part of the step that ends the cycle: the clock   *)
(* advances when the next frame is read.                                   *)
(***************************************************************************)

\* (a slip: a width of 0 is let through to the division)
EstimateDistanceCm_ZeroAllowed(face_width_px) ==
    IF face_width_px < 0 THEN None
    ELSE Some(<<reference_distance_cm * reference_face_width_px, face_width_px>>)

\* _estimate_distance_cm: None for a width <= 0, else the exact fraction
\* reference_distance_cm * reference_face_width_px / face_width_px
EstimateDistanceCm(face_width_px) ==
    IF face_width_px <= 0 THEN None
    ELSE Some(<<reference_distance_cm * reference_face_width_px, face_width_px>>)

\* round(distance_cm, 1), in tenths of a centimetre (ties to even)
RoundTenths(fraction) ==
    LET n == 10 * fraction[1]
        q == n \div fraction[2]
        r == n % fraction[2]
    IN  IF 2 * r > fraction[2] THEN q + 1
        ELSE IF 2 * r = fraction[2] THEN q + (q % 2)
        ELSE q

\* distance_cm < self.min_distance_cm
TooClose(fraction) == fraction[1] < min_distance_cm * fraction[2]

\* run() is inside a cycle: past the while test, before the next one
InCycle == pc \in {"read", "detect", "distance", "blink", "posture", "break_check"}

\* self.stop_event.is_set()
StopRequested_Never == FALSE
StopRequested == stop_event

\* (a slip: the viewing timer is zeroed by every cycle without a face)
TimersNoFace_AlwaysReset(t) == 0

\* _update_timers_no_face: continuous_face_time after a cycle without a
\* face at time t
TimersNoFace(t) ==
    IF /\ ~IsNone(last_face_seen_time)
       /\ t - Val(last_face_seen_time) >= absence_reset_seconds
    THEN 0
    ELSE continuous_face_time

\* (a slip: the failure is reported and the display cleared as well)
SetupFailureEvents_AndDistance(message) ==
    <<Event("error", <<message>>), Event("distance_update", None)>>

\* lines 133-136 and 141: what run() publishes when it cannot start
SetupFailureEvents(message) == <<Event("error", <<message>>)>>

\* lines 132-137: the face model did not load
RunStart ==
    /\ pc = "start"
    /\ \E face_cascade_empty \in BOOLEAN :
          IF face_cascade_empty
          THEN /\ Post(SetupFailureEvents("no face model"))
               /\ pc' = "done"
          ELSE /\ pc' = "open_camera"
               /\ UNCHANGED channel
    /\ UNCHANGED <<stop_event, cap, last_frame_time, continuous_face_time,
                   last_face_seen_time, last_distance_alert_time,
                   too_close_events, break_alerts, break_interval_seconds,
                   loop_now, loop_dt, face>>
    /\ UNCHANGED <<call_vars, window_vars, camera_faces>>
    /\ UNCHANGED <<cycle_history, clock, clock_steps,
                   detector_vars, consumed, monitor_history>>

\* lines 139-147: cap = cv2.VideoCapture(...); not opened: error, return
OpenCamera ==
    /\ pc = "open_camera"
    /\ \E is_opened \in BOOLEAN :
          IF is_opened
          THEN /\ cap' = "open"
               /\ last_frame_time' = Some(clock)
               /\ pc' = "loop_top"
               /\ UNCHANGED channel
          ELSE /\ cap' = "not opened"
               /\ Post(SetupFailureEvents("no webcam"))
               /\ pc' = "done"
               /\ UNCHANGED last_frame_time
    /\ UNCHANGED <<stop_event, continuous_face_time,
                   last_face_seen_time, last_distance_alert_time,
                   too_close_events, break_alerts, break_interval_seconds,
                   loop_now, loop_dt, face>>
    /\ UNCHANGED <<call_vars, window_vars, camera_faces>>
    /\ UNCHANGED <<cycle_history, clock, clock_steps,
                   detector_vars, consumed, monitor_history>>

\* the cycles explored: MaxCycles, and two more for the viewer who stays
CycleLimit ==
    IF camera_faces = ViewingFaces THEN MaxCycles + 2
    ELSE IF camera_faces = GapFaces THEN MaxCycles + 3
    ELSE MaxCycles

\* line 150: while not self.stop_event.is_set()
LoopTop ==
    /\ pc = "loop_top"
    /\ IF StopRequested
       THEN /\ pc' = "finally"
            /\ UNCHANGED <<cycles, cycle_log, cycle_stage>>
       ELSE /\ cycles < CycleLimit
            /\ pc' = "read"
            /\ cycles' = cycles + 1
            /\ cycle_log' = << >>
            /\ cycle_stage' = "none"
    /\ UNCHANGED <<stop_event, cap, last_frame_time, continuous_face_time,
                   last_face_seen_time, last_distance_alert_time,
                   too_close_events, break_alerts, break_interval_seconds,
                   loop_now, loop_dt, face>>
    /\ UNCHANGED <<call_vars, window_vars, camera_faces>>
    /\ UNCHANGED <<distance_step, clock, clock_steps,
                   detector_vars, event_queue, published, consumed,
                   raised, stop_in_cycle, timers_step, face_seen_at>>

\* (a slip: a frame that cannot be read ends the loop)
AfterRead_FailureEndsLoop(ret) == IF ret THEN "detect" ELSE "finally"

\* lines 154-158: where run() goes after cap.read(): on to the detection,
\* or, without a frame, through sleep and continue back to the while test
AfterRead(ret) == IF ret THEN "detect" ELSE "loop_top"

\* lines 151-156: ret, frame = cap.read(); now = time.time();
\* no frame: sleep and continue
ReadFrame ==
    /\ pc = "read"
    /\ \E d \in clock_steps, ret \in BOOLEAN :
          /\ clock' = clock + d
          /\ loop_now' = clock'
          /\ pc' = AfterRead(ret)
          /\ cycle_stage' = IF ret THEN "frame" ELSE "failed"
    /\ UNCHANGED <<stop_event, cap, last_frame_time, continuous_face_time,
                   last_face_seen_time, last_distance_alert_time,
                   too_close_events, break_alerts, break_interval_seconds,
                   loop_dt, face>>
    /\ UNCHANGED <<call_vars, window_vars, camera_faces>>
    /\ UNCHANGED <<distance_step, clock_steps, detector_vars,
                   channel, consumed, monitor_history>>

\* (a slip: a cycle without a face publishes nothing)
NoFaceEvents_Silent == << >>

\* line 231: what a cycle without a face publishes
NoFaceEvents == <<Event("distance_update", None)>>

\* lines 158-171 and 228-233: detect faces, dt, the timers; without a face
\* the cycle ends here with a distance update that carries None
DetectFaces ==
    /\ pc = "detect"
    /\ \E faces \in camera_faces :
          LET delta == IF ~IsNone(last_frame_time) /\ Val(last_frame_time) # 0
                       THEN loop_now - Val(last_frame_time) ELSE 0
          IN  /\ loop_dt' = delta
              /\ last_frame_time' = Some(loop_now)
              /\ face' = faces
              /\ timers_step' = [face |-> ~IsNone(faces),
                                  before |-> continuous_face_time,
                                  now |-> loop_now, seen |-> face_seen_at,
                                  break_alerts |-> break_alerts]
              /\ cycle_stage' = IF IsNone(faces) THEN "no face" ELSE "face"
              /\ IF ~IsNone(faces)
                 THEN /\ last_face_seen_time' = Some(loop_now)
                      /\ continuous_face_time' = continuous_face_time + delta
                      /\ face_seen_at' = Some(loop_now)
                      /\ pc' = "distance"
                      /\ UNCHANGED channel
                 ELSE /\ continuous_face_time' = TimersNoFace(loop_now)
                      /\ Post(NoFaceEvents)
                      /\ pc' = "loop_top"
                      /\ UNCHANGED <<last_face_seen_time, face_seen_at>>
    /\ UNCHANGED <<stop_event, cap, last_distance_alert_time,
                   too_close_events, break_alerts, break_interval_seconds,
                   loop_now>>
    /\ UNCHANGED <<call_vars, window_vars, camera_faces>>
    /\ UNCHANGED <<distance_step, clock, clock_steps,
                   detector_vars, consumed, cycles, raised, stop_in_cycle>>

\* (a slip: the cooldown is not looked at)
DistanceCooldownElapsed_Ignored(now, last) == now >= last

\* now - self.last_distance_alert_time >= self.distance_alert_cooldown
DistanceCooldownElapsed(now, last) == now - last >= distance_alert_cooldown

\* lines 173-195: the distance update and the too-close warning
ReportDistance ==
    /\ pc = "distance"
    /\ LET distance_cm == EstimateDistanceCm(Val(face).w)
           warn == /\ ~IsNone(distance_cm)
                   /\ TooClose(Val(distance_cm))
                   /\ DistanceCooldownElapsed(loop_now,
                                              last_distance_alert_time)
       IN  /\ distance_step' =
                 [now |-> loop_now, width |-> Val(face).w,
                  prev_warning |-> IF distance_step.warned
                                   THEN Some(distance_step.now)
                                   ELSE distance_step.prev_warning,
                  before |-> too_close_events, warned |-> warn]
           /\ too_close_events' =
                 IF warn THEN too_close_events + 1 ELSE too_close_events
           /\ last_distance_alert_time' =
                 IF warn THEN loop_now ELSE last_distance_alert_time
           /\ Post(IF IsNone(distance_cm)
                   THEN <<Event("distance_update", None)>>
                   ELSE <<Event("distance_update",
                                Some(RoundTenths(Val(distance_cm))))>>
                        \o (IF warn
                            THEN <<Event("distance_warning",
                                         Some(RoundTenths(Val(distance_cm))))>>
                            ELSE << >>))
    /\ pc' = "blink"
    /\ UNCHANGED <<stop_event, cap, last_frame_time, continuous_face_time,
                   last_face_seen_time, break_alerts, break_interval_seconds,
                   loop_now, loop_dt, face>>
    /\ UNCHANGED <<call_vars, window_vars, camera_faces>>
    /\ UNCHANGED <<cycle_stage, clock, clock_steps,
                   detector_vars, consumed, monitor_history>>

\* (a slip: the low-blink alert is posted before the rate)
BlinkEvents_AlertFirst(info) ==
    (IF info.low_blink_alert
     THEN <<Event("blink_low", info.blink_rate_bpm)>>
     ELSE << >>)
    \o <<Event("blink_rate_update", info.blink_rate_bpm)>>

\* lines 202-213: the events of the dict the blink detector returned
BlinkEvents(info) ==
    <<Event("blink_rate_update", info.blink_rate_bpm)>>
    \o (IF info.low_blink_alert
        THEN <<Event("blink_low", info.blink_rate_bpm)>>
        ELSE << >>)

\* lines 199-213: the blink detector and its events
MonitorBlink ==
    /\ pc = "blink"
    /\ \E eyes_open \in BOOLEAN :
          /\ BlinkDetector_update(eyes_open, loop_now)
          /\ BlinkHistoryStep(eyes_open, loop_now)
    /\ Post(BlinkEvents(blink_info'))
    /\ pc' = "posture"
    /\ UNCHANGED <<stop_event, cap, last_frame_time, continuous_face_time,
                   last_face_seen_time, last_distance_alert_time,
                   too_close_events, break_alerts, break_interval_seconds,
                   loop_now, loop_dt, face>>
    /\ UNCHANGED <<call_vars, window_vars, camera_faces>>
    /\ UNCHANGED <<cycle_history, clock, clock_steps,
                   posture_vars, posture_history,
                   consumed, monitor_history>>

\* lines 215-222: the posture detector and its events
MonitorPosture ==
    /\ pc = "posture"
    /\ PostureDetector_update(Val(face), FrameShape, loop_now)
    /\ PostureHistoryStep(Val(face), FrameShape, loop_now)
    /\ Post(<<Event("posture_update", <<posture_info'.state>>)>>
            \o (IF posture_info'.posture_alert
                THEN <<Event("posture_warning", <<posture_info'.state>>)>>
                ELSE << >>))
    /\ pc' = "break_check"
    /\ UNCHANGED <<stop_event, cap, last_frame_time, continuous_face_time,
                   last_face_seen_time, last_distance_alert_time,
                   too_close_events, break_alerts, break_interval_seconds,
                   loop_now, loop_dt, face>>
    /\ UNCHANGED <<call_vars, window_vars, camera_faces>>
    /\ UNCHANGED <<cycle_history, clock, clock_steps,
                   blink_vars, blink_history,
                   consumed, monitor_history>>

\* (a slip: the viewing time is compared with the default interval, not
\* with the interval the thread has now)
BreakDue_AgainstDefault(viewing_time, interval) ==
    viewing_time >= default_break_seconds

\* (a slip: the viewing time has to exceed the interval)
BreakDue_Strict(viewing_time, interval) == viewing_time > interval

\* self.continuous_face_time >= self.break_interval_seconds
BreakDue(viewing_time, interval) == viewing_time >= interval

\* lines 224-227 and 233: the break reminder, then sleep
BreakCheck ==
    /\ pc = "break_check"
    /\ IF BreakDue(continuous_face_time, break_interval_seconds)
       THEN /\ break_alerts' = break_alerts + 1
            /\ continuous_face_time' = 0
            /\ Post(<<Event("break_reminder", << >>)>>)
       ELSE UNCHANGED <<break_alerts, continuous_face_time, channel>>
    /\ pc' = "loop_top"
    /\ UNCHANGED <<stop_event, cap, last_frame_time,
                   last_face_seen_time, last_distance_alert_time,
                   too_close_events, break_interval_seconds,
                   loop_now, loop_dt, face>>
    /\ UNCHANGED <<call_vars, window_vars, camera_faces>>
    /\ UNCHANGED <<cycle_history, clock, clock_steps,
                   detector_vars, consumed, monitor_history>>

\* an OpenCV call or an analyzer raises inside the try block: nothing of
\* the cycle catches it, control goes to the finally clause
CycleRaises ==
    /\ pc \in {"detect", "blink", "posture"}
    /\ pc' = "finally"
    /\ raised' = TRUE
    /\ UNCHANGED <<stop_event, cap, last_frame_time, continuous_face_time,
                   last_face_seen_time, last_distance_alert_time,
                   too_close_events, break_alerts, break_interval_seconds,
                   loop_now, loop_dt, face>>
    /\ UNCHANGED <<call_vars, window_vars, camera_faces>>
    /\ UNCHANGED <<cycle_history, clock, clock_steps,
                   detector_vars, channel, consumed,
                   cycles, stop_in_cycle, timers_step, face_seen_at>>

\* lines 234-235: finally: cap.release(), and run() is over
ReleaseCamera ==
    /\ pc = "finally"
    /\ cap' = "released"
    /\ pc' = "done"
    /\ UNCHANGED <<stop_event, last_frame_time, continuous_face_time,
                   last_face_seen_time, last_distance_alert_time,
                   too_close_events, break_alerts, break_interval_seconds,
                   loop_now, loop_dt, face>>
    /\ UNCHANGED <<call_vars, window_vars, camera_faces>>
    /\ UNCHANGED <<cycle_history, clock, clock_steps,
                   detector_vars, channel, consumed,
                   monitor_history>>

\* the steps of the monitoring thread
MonitorThread_run ==
    \/ RunStart
    \/ OpenCamera
    \/ LoopTop
    \/ ReadFrame
    \/ DetectFaces
    \/ ReportDistance
    \/ MonitorBlink
    \/ MonitorPosture
    \/ BreakCheck
    \/ CycleRaises
    \/ ReleaseCamera

\* MonitorThread.stop, called by the window's thread in stop_monitoring
\* (lines 1321-1330, its only caller): the window is monitoring, forgets
\* the thread and sets its stop event.  What stop_monitoring does after
\* join() is MonitorThread_get_session_stats.
MonitorThread_stop ==
    /\ monitoring_active /\ ~IsNone(monitor_thread)
    /\ monitoring_active' = FALSE
    /\ monitor_thread' = None
    /\ stop_event' = TRUE
    /\ stop_in_cycle' = InCycle
    /\ UNCHANGED <<pc, cap, last_frame_time, continuous_face_time,
                   last_face_seen_time, last_distance_alert_time,
                   too_close_events, break_alerts, break_interval_seconds,
                   loop_now, loop_dt, face>>
    /\ UNCHANGED <<call_vars, camera_faces, break_seconds, break_spin,
                   session_vars>>
    /\ UNCHANGED <<cycle_history, clock, clock_steps,
                   detector_vars, channel, consumed,
                   cycles, raised, timers_step, face_seen_at>>

\* (a slip: the newest event is taken first)
QueueGet_Newest(q) == [item |-> q[Len(q)], rest |-> SubSeq(q, 1, Len(q) - 1)]

\* Queue.get_nowait() on a non-empty queue: the oldest item
QueueGet(q) == [item |-> Head(q), rest |-> Tail(q)]

\* VisionMateWindow._process_events, one turn of its loop: get_nowait()
\* and the branch of that event; an error event stops the monitoring
\* (stop_monitoring calls thread.stop()).  An empty queue ends the handler.
ProcessEvent ==
    /\ event_queue # << >>
    /\ LET got == QueueGet(event_queue)
       IN  /\ event_queue' = got.rest
           /\ consumed' = Append(consumed, got.item.seq)
           /\ IF /\ got.item.name = "error"
                 /\ monitoring_active /\ ~IsNone(monitor_thread)
              THEN /\ monitoring_active' = FALSE
                   /\ monitor_thread' = None
                   /\ stop_event' = TRUE
                   /\ stop_in_cycle' = InCycle
              ELSE UNCHANGED <<monitoring_active, monitor_thread,
                               stop_event, stop_in_cycle>>
    /\ UNCHANGED <<pc, cap, last_frame_time, continuous_face_time,
                   last_face_seen_time, last_distance_alert_time,
                   too_close_events, break_alerts, break_interval_seconds,
                   loop_now, loop_dt, face>>
    /\ UNCHANGED <<call_vars, camera_faces, break_seconds, break_spin,
                   session_vars>>
    /\ UNCHANGED <<cycle_history, clock, clock_steps,
                   detector_vars, published, cycle_log,
                   cycles, raised, timers_step, face_seen_at>>

(***************************************************************************)
(* SpecLoop: one MonitorThread running against the window's thread, which  *)
(* dequeues events and may call stop() at any moment.  SpecLoopFair adds   *)
(* what the scheduler gives a live thread: run() keeps taking steps.       *)
(***************************************************************************)
NextLoop ==
    \/ MonitorThread_run
    \/ MonitorThread_stop
    \/ ProcessEvent

InitLoop == clock_steps = AbsenceSteps /\ Init

SpecLoop == InitLoop /\ [][NextLoop]_vars

SpecLoopFair == SpecLoop /\ WF_vars(MonitorThread_run)

-----------------------------------------------------------------------------
(***************************************************************************)
(* MonitorThread.get_session_stats and the analyzers' session_stats.  A    *)
(* dict is a function from its keys; an isoformat time is the whole number *)
(* of seconds of the timestamp; round(x, n) rounds to the nearest multiple *)
(* of 10^-n, a tie going to the even one.                                  *)
(***************************************************************************)


\* round(n / d), ties to even, for n >= 0 and d > 0
RoundHalfEven(n, d) ==
    LET q == n \div d
        r == n % d
    IN  IF 2 * r > d THEN q + 1
        ELSE IF 2 * r = d THEN q + (q % 2)
        ELSE q

\* self.session_start_time = time.time() in __init__
session_start_time == ClockOrigin

\* BlinkDetector.session_stats: the average rate in hundredths of a blink
\* per minute, over max((end - start) / 60.0, 1e-3) minutes
BlinkDetector_session_stats(session_start, session_end) ==
    IF all_blinks = << >>
    THEN [avg_blink_rate_per_minute |-> 0, total_blinks |-> 0]
    ELSE LET span == session_end - session_start
             total_blinks == Len(all_blinks)
             floored == span * min_duration_per_minute < ticks_per_minute
         IN  [avg_blink_rate_per_minute |->
                 IF floored
                 THEN 100 * total_blinks * min_duration_per_minute
                 ELSE RoundHalfEven(100 * total_blinks * ticks_per_minute, span),
              total_blinks |-> total_blinks]

\* PostureDetector.session_stats: the poor time in tenths of a second
PostureDetector_session_stats ==
    [poor_posture_seconds |->
        RoundHalfEven(10 * poor_posture_seconds, TicksPerSecond),
     poor_posture_alerts |-> alert_count]

\* (a slip: a failing analyzer summary takes the record down with it)
MergeStats_FailureLosesRecord(stats, part) ==
    IF IsNone(part) THEN [type |-> stats.type] ELSE Val(part) @@ stats

\* try: stats.update(<analyzer>.session_stats(...)) except Exception: pass
\* `part` is what the analyzer's call returned, or None when it raised
MergeStats(stats, part) ==
    IF IsNone(part) THEN stats ELSE Val(part) @@ stats

\* get_session_stats at clock reading end_time
SessionStats(end_time, blink_raises, posture_raises) ==
    LET base == [type |-> "monitoring_session",
                 start_time |-> session_start_time \div TicksPerSecond,
                 end_time |-> end_time \div TicksPerSecond,
                 total_monitor_seconds |->
                     RoundHalfEven(end_time - session_start_time,
                                   TicksPerSecond),
                 too_close_events |-> too_close_events,
                 break_alerts |-> break_alerts]
        blink_part == IF blink_raises THEN None
                      ELSE Some(BlinkDetector_session_stats(
                                    session_start_time, end_time))
        posture_part == IF posture_raises THEN None
                        ELSE Some(PostureDetector_session_stats)
    IN  MergeStats(MergeStats(base, blink_part), posture_part)

\* the window's stop_monitoring, after thread.stop() and join(timeout=3.0):
\* stats = thread.get_session_stats(), once for a thread.  Either
\* analyzer's session_stats may raise.
MonitorThread_get_session_stats ==
    /\ stop_event
    /\ IsNone(session_stats)
    /\ \E blink_raises, posture_raises \in BOOLEAN :
          session_stats' =
              Some([stats |-> SessionStats(clock, blink_raises, posture_raises),
                    blink_raised |-> blink_raises,
                    posture_raised |-> posture_raises])
    /\ UNCHANGED <<estimate_arg, estimate_result, window_vars, camera_faces>>
    /\ UNCHANGED <<cycle_history, clock,
                   clock_steps, detector_vars, monitor_vars, channel,
                   consumed, monitor_history>>

(***************************************************************************)
(* SpecSession: the loop, the window that dequeues and stops it, and the   *)
(* session summary the window asks for after stop(), with frames spaced    *)
(* around the distance cooldown.                                           *)
(* SpecBreak: the loop and the window, with frames spaced around half the  *)
(* break interval.                                                         *)
(***************************************************************************)
NextSession ==
    \/ NextLoop
    \/ MonitorThread_get_session_stats

InitSession == clock_steps = CooldownSteps /\ Init

SpecSession == InitSession /\ [][NextSession]_vars

InitBreak == clock_steps = BreakSteps /\ Init

SpecBreak == InitBreak /\ [][NextLoop]_vars

(***************************************************************************)
(* Claims about the monitoring loop and the event queue                    *)
(***************************************************************************)

\* how long before the last cycle without a face a face was last seen
AbsenceKnown == ~IsNone(timers_step.seen)
Absence == timers_step.now - Val(timers_step.seen)

\* C6: a cycle without a face that comes less than absence_reset_seconds
\* after the last cycle with a face leaves continuous_face_time as it was;
\* a cycle without a face changes it only by zeroing it, and only when
\* now - (time a face was last seen) >= absence_reset_seconds.
C6_NoFaceCycleKeepsTimerUntilAbsenceReset ==
    ~timers_step.face =>
        /\ (AbsenceKnown /\ Absence < absence_reset_seconds)
              => continuous_face_time = timers_step.before
        /\ continuous_face_time # timers_step.before
              => /\ continuous_face_time = 0
                 /\ AbsenceKnown
                 /\ Absence >= absence_reset_seconds

\* C6 witness: no face 299 s (absence_reset_seconds - 1 s) after a face
\* was last seen, and the accumulated viewing time is still there.
C6_Witness ==
    /\ ~timers_step.face
    /\ AbsenceKnown
    /\ Absence = absence_reset_seconds - 20
    /\ timers_step.before > 0
    /\ continuous_face_time = timers_step.before

\* C7: the event queue is bounded: whatever capacity it is given (each
\* capacity up to the number of cycles explored is tried), the number of
\* queued events never exceeds it, a publish on a full queue being dropped.
C7_QueueNeverExceedsCapacity ==
    \E capacity \in 1..MaxCycles : Len(event_queue) <= capacity

\* C8: events are dequeued in the order they were published: of two
\* dequeued events the one published first was dequeued first.
C8_DequeuedInPublicationOrder ==
    \A i, j \in 1..Len(consumed) : i < j => consumed[i] < consumed[j]

\* C8 witness: two events were dequeued while the loop was inside a cycle
\* with further events still queued.
C8_Witness ==
    /\ Len(consumed) >= 2
    /\ InCycle
    /\ event_queue # << >>

\* C9: the stop flag is looked at by the while test only.  A cycle starts
\* only when that test found the flag clear; a cycle in flight is left
\* for the finally clause by an exception only, never because the flag is
\* set, so it runs to its end; run() ends with the camera released
\* whenever the loop was entered; and once stop() has been called run()
\* eventually ends, failed frame reads included.
C9_StopEndsLoopAfterCycleInFlight ==
    /\ [][/\ cycles' > cycles => ~stop_event
          /\ (InCycle /\ pc' = "finally") => raised'
          /\ (InCycle /\ ~raised') => pc' \in {"read", "detect", "distance",
                                               "blink", "posture",
                                               "break_check", "loop_top"}]_vars
    /\ [](pc = "done" => cap # "open")
    /\ (stop_event ~> pc = "done")

\* C9 witness: stop() came while a cycle was in flight, no exception
\* occurred, and run() has ended with the camera released.
C9_Witness ==
    /\ stop_in_cycle
    /\ ~raised
    /\ pc = "done"
    /\ cap = "released"

\* C10: on every way out of run() after the camera handle was created,
\* the handle has been released when run() returns.
C10_CameraReleasedOnEveryExit ==
    (pc = "done" /\ cap # "none") => cap = "released"

\* run() returned before its loop: from line 137 (no camera handle was
\* made) or from line 142 (the handle could not be opened)
SetupFailed == pc = "done" /\ cap # "released"

\* C11: when the face model cannot be loaded or the camera cannot be
\* opened, run() has published exactly one event, an error event, has
\* started no cycle, has left every session timer and counter and both
\* analyzers as constructed, and is over; and run() publishes nothing
\* before its first cycle unless it fails in this way.
C11_SetupFailurePublishesOneErrorOnly ==
    /\ SetupFailed =>
          /\ published = 1
          /\ Len(cycle_log) = 1
          /\ cycle_log[1].name = "error"
          /\ cycles = 0
          /\ cycle_stage = "none"
          /\ continuous_face_time = 0
          /\ last_face_seen_time = None
          /\ last_distance_alert_time = 0
          /\ too_close_events = 0
          /\ break_alerts = 0
          /\ blink_calls = 0
          /\ posture_calls = 0
    /\ (cycles = 0 /\ published > 0) => SetupFailed

\* C11 witness: the camera could not be opened, and the window has
\* dequeued the one event there is.
C11_Witness ==
    /\ SetupFailed
    /\ cap = "not opened"
    /\ consumed = <<1>>
    /\ event_queue = << >>

\* C12 as stated: a failure raised by the blink or the posture analyzer's
\* update stays inside the cycle: from either analyzer's block run() goes
\* on to the next block of the same cycle (the other analyzer, the break
\* check), with the camera still open, and never leaves the loop.
C12_AnalyzerFailureStaysInCycle ==
    [][(pc \in {"blink", "posture"} /\ pc' # pc)
          => (pc' \in {"posture", "break_check"} /\ cap' = "open")]_vars

\* C13: a cycle whose frame acquisition fails goes back to the while test
\* having published nothing and changed no session timer, counter or
\* analyzer state, the camera still open; the while test that follows it
\* starts another acquisition unless stop() has been called, however many
\* acquisitions failed before; and no cycle without a frame ever publishes.
C13_FailedReadChangesNothingAndRetries ==
    /\ [][/\ (pc = "read" /\ cycle_stage' = "failed") =>
                /\ pc' = "loop_top"
                /\ UNCHANGED <<event_queue, published, cycle_log, cap,
                               last_frame_time, continuous_face_time,
                               last_face_seen_time, last_distance_alert_time,
                               too_close_events, break_alerts,
                               break_interval_seconds,
                               blink_vars, posture_vars, raised>>
          /\ (pc = "loop_top" /\ cycle_stage = "failed" /\ ~stop_event
                 /\ pc' # pc) => pc' = "read"]_vars
    /\ [](cycle_stage \in {"none", "failed"} /\ cycles > 0 => cycle_log = << >>)

\* C13 witness: two acquisitions in a row have failed, nothing was
\* published, and the loop is at its while test with the camera open.
C13_Witness ==
    /\ cycles >= 2
    /\ cycle_stage = "failed"
    /\ published = 0
    /\ pc = "loop_top"
    /\ cap = "open"
    /\ ~stop_event

\* the keys of the summary: startTime, endTime, totalMonitorSeconds,
\* tooCloseEvents, breakAlerts / the blink fields / the posture fields
BaseFields == {"start_time", "end_time", "total_monitor_seconds",
               "too_close_events", "break_alerts"}
BlinkFields == {"avg_blink_rate_per_minute", "total_blinks"}
PostureFields == {"poor_posture_seconds", "poor_posture_alerts"}

\* C14: the record get_session_stats returns has the five base fields
\* whatever fails; it has the posture fields unless the posture summary
\* failed and the blink fields unless the blink summary failed (so all
\* nine fields when neither fails); a failed summary adds no field.
C14_SessionStatsSurvivesAnalyzerFailure ==
    ~IsNone(session_stats) =>
        LET returned == Val(session_stats)
            fields == DOMAIN returned.stats
        IN  /\ BaseFields \subseteq fields
            /\ ~returned.blink_raised => BlinkFields \subseteq fields
            /\ ~returned.posture_raised => PostureFields \subseteq fields
            /\ returned.blink_raised => BlinkFields \cap fields = {}
            /\ returned.posture_raised => PostureFields \cap fields = {}
            /\ Cardinality(BaseFields \cup BlinkFields \cup PostureFields) = 9

\* C14 witness: the blink summary failed; the record has the base and the
\* posture fields, with the counts of a session that warned once.
C14_Witness ==
    /\ ~IsNone(session_stats)
    /\ Val(session_stats).blink_raised
    /\ ~Val(session_stats).posture_raised
    /\ PostureFields \subseteq DOMAIN Val(session_stats).stats
    /\ Val(session_stats).stats.too_close_events = 1

\* the events of one name among those posted since the last cycle began
Posted(name) == SelectSeq(cycle_log, LAMBDA e : e.name = name)

\* the last cycle found a face and has made its distance report
DistanceReported == cycle_stage = "face" /\ pc # "distance"

\* what the last distance report was given: a face nearer than
\* min_distance_cm by the calibration (60 cm at 150 px), and the time
\* since the distance warning before it, if there was one
ReportedTooClose ==
    /\ distance_step.width > 0
    /\ reference_distance_cm * reference_face_width_px
           < min_distance_cm * distance_step.width
SinceLastWarning == distance_step.now - Val(distance_step.prev_warning)
WarningCooldownOver ==
    \/ IsNone(distance_step.prev_warning)
    \/ SinceLastWarning >= distance_alert_cooldown

\* C15: a distance report warns (one distance_warning published,
\* too_close_events one higher) if and only if the estimated distance is
\* below min_distance_cm and there was no earlier distance warning or the
\* last one is at least distance_alert_cooldown back; otherwise it leaves
\* too_close_events alone and publishes no warning.  So there is no
\* warning at min_distance_cm or beyond, none in a cycle without a face,
\* and two warnings are never less than 5 s apart.
C15_DistanceWarningIffCooldownElapsed ==
    /\ distance_step.warned <=> (ReportedTooClose /\ WarningCooldownOver)
    /\ too_close_events =
          distance_step.before + (IF distance_step.warned THEN 1 ELSE 0)
    /\ DistanceReported =>
          Len(Posted("distance_warning")) =
              (IF distance_step.warned THEN 1 ELSE 0)
    /\ ~DistanceReported => Posted("distance_warning") = << >>
    /\ (distance_step.warned /\ ~IsNone(distance_step.prev_warning)) =>
          SinceLastWarning >= distance_alert_cooldown

\* C15 witness: a second warning exactly 5 s after the first.
C15_Witness ==
    /\ DistanceReported
    /\ distance_step.warned
    /\ ~IsNone(distance_step.prev_warning)
    /\ SinceLastWarning = distance_alert_cooldown
    /\ too_close_events = 2
    /\ Len(Posted("distance_warning")) = 1

\* the viewing time of the last cycle with a face, right after the
\* inter-frame delta was added to it
ViewingTime == timers_step.before + loop_dt

\* the last cycle found a face and is before / past its break check (a
\* cycle that an exception cut short never gets to the check)
BeforeBreakCheck ==
    /\ cycle_stage = "face"
    /\ pc \in {"distance", "blink", "posture", "break_check"}
AfterBreakCheck ==
    /\ cycle_stage = "face"
    /\ pc \in {"loop_top", "finally", "done"}
    /\ ~raised

NearestTenths(tenths, w) ==
    LET exact == 10 * reference_distance_cm * reference_face_width_px
        off == tenths * w - exact
    IN  2 * (IF off >= 0 THEN off ELSE 0 - off) <= w

\* C17: a cycle that acquired a frame and found no face has published
\* exactly one distance_update, carrying None; a cycle that found a face
\* publishes exactly one, in its distance report, carrying the estimate
\* for that face's width (to 0.1 cm), or None if there is no estimate;
\* never a second one, and none before the frame is acquired and looked
\* at.  (An exception in OpenCV's conversion or detection ends run()
\* before the cycle knows whether there is a face.)
C17_OneDistanceUpdatePerFrame ==
    LET updates == Posted("distance_update")
    IN  /\ Len(updates) <= 1
        /\ cycle_stage = "no face" =>
              /\ Len(updates) = 1
              /\ IsNone(updates[1].payload)
        /\ DistanceReported =>
              /\ Len(updates) = 1
              /\ IF Val(face).w <= 0
                 THEN IsNone(updates[1].payload)
                 ELSE /\ ~IsNone(updates[1].payload)
                      /\ NearestTenths(Val(updates[1].payload), Val(face).w)
        /\ (cycle_stage \in {"none", "failed", "frame"} \/ pc = "distance")
              => updates = << >>

\* C17 witness: a cycle with a face 300 px wide has ended, having
\* published one distance_update that carries 30.0 cm.
C17_Witness ==
    /\ DistanceReported
    /\ pc = "loop_top"
    /\ Val(face).w = 2 * reference_face_width_px
    /\ Posted("distance_update") =
          <<Event("distance_update",
                  Some((10 * reference_distance_cm) \div 2))>>

-----------------------------------------------------------------------------
(***************************************************************************)
(* SpecEstimate: _estimate_distance_cm called on its own, with every face  *)
(* width from -MaxFaceWidth to MaxFaceWidth px.                            *)
(***************************************************************************)
FaceWidths == (0 - MaxFaceWidth) .. MaxFaceWidth

EstimateCall ==
    /\ \E face_width_px \in FaceWidths :
          /\ estimate_arg' = Some(face_width_px)
          /\ estimate_result' = EstimateDistanceCm(face_width_px)
    /\ UNCHANGED <<session_stats, window_vars, camera_faces>>
    /\ UNCHANGED <<cycle_history, clock, clock_steps,
                   detector_vars, monitor_vars, channel, consumed,
                   monitor_history>>

NextEstimate == EstimateCall

InitEstimate == clock_steps = CooldownSteps /\ Init

SpecEstimate == InitEstimate /\ [][NextEstimate]_vars

\* C18: the estimator returns no estimate exactly for the widths <= 0
\* (0 and -5 among them); for a width w > 0 it returns the distance d with
\* d * w = reference_distance_cm * reference_face_width_px, which for
\* w = 150 is exactly 60 cm; and a call changes nothing of the thread.
C18_EstimateIsInverseInWidth ==
    /\ [](~IsNone(estimate_arg) =>
            LET w == Val(estimate_arg)
            IN  /\ w <= 0 <=> IsNone(estimate_result)
                /\ w > 0 =>
                      LET d == Val(estimate_result)
                      IN  /\ d[2] > 0
                          /\ d[1] * w = reference_distance_cm
                                          * reference_face_width_px * d[2]
                          /\ w = reference_face_width_px
                                => d[1] = reference_distance_cm * d[2])
    /\ [][estimate_arg' # estimate_arg =>
             UNCHANGED <<monitor_vars, channel, detector_vars>>]_vars

\* C18 witness: the estimate for 150 px is 60 cm.
C18_Witness ==
    /\ estimate_arg = Some(reference_face_width_px)
    /\ ~IsNone(estimate_result)
    /\ Val(estimate_result)[1] = reference_distance_cm * Val(estimate_result)[2]

-----------------------------------------------------------------------------
(***************************************************************************)
(* SpecBlinkRate: a BlinkDetector under every sequence of update calls, as *)
(* in SpecBlink, and under the evenly blinking viewer: one blink every 2 s,*)
(* each a closure of d ticks (blink-shaped: 0.05 s < d < 0.8 s) that ends  *)
(* on the 2 s mark, ScenarioBlinks of them, then one more look 2 s after   *)
(* the last.  With the first blink stamped t = 0 the last look is at       *)
(* t = 2 s * ScenarioBlinks (40 s for 20 blinks).                          *)
(***************************************************************************)
ScenarioPeriod == 2 * TicksPerSecond

ScenarioSteps ==
    {{d, ScenarioPeriod - d} :
        d \in (blink_min_closed + 1) .. (blink_max_closed - 1)}

ScenarioRegime == clock_steps \in ScenarioSteps

\* the closure length of the regime: the shorter of its two steps
ScenarioClosure == CHOOSE d \in clock_steps : 2 * d < ScenarioPeriod

\* the i-th observation of the viewer (i from 0): open before anything,
\* then closed, open, ... for each blink, then open once more
ScenarioEyesOpen(i) == i = 0 \/ i % 2 = 0 \/ i = 2 * ScenarioBlinks + 1
ScenarioStep(i) ==
    IF i = 2 * ScenarioBlinks + 1 THEN ScenarioPeriod
    ELSE IF i > 0 /\ ScenarioEyesOpen(i) THEN ScenarioClosure
    ELSE ScenarioPeriod - ScenarioClosure

ScenarioUpdate ==
    /\ ScenarioRegime
    /\ blink_calls <= 2 * ScenarioBlinks + 1
    /\ clock' = clock + ScenarioStep(blink_calls)
    /\ BlinkDetector_update(ScenarioEyesOpen(blink_calls), clock')
    /\ BlinkHistoryStep(ScenarioEyesOpen(blink_calls), clock')
    /\ UNCHANGED <<call_vars, window_vars, camera_faces>>
    /\ UNCHANGED <<cycle_history, clock_steps,
                   posture_vars, posture_history,
                   monitor_vars, channel, consumed, monitor_history>>

NextBlinkRate ==
    \/ ~ScenarioRegime /\ BlinkUpdate
    \/ ScenarioUpdate

InitBlinkRate ==
    /\ clock_steps \in {FastSteps, SlowSteps} \cup ScenarioSteps
    /\ Init

SpecBlinkRate == InitBlinkRate /\ [][NextBlinkRate]_vars

\* the evenly blinking viewer has been looked at for the last time
ScenarioOver == ScenarioRegime /\ blink_calls = 2 * ScenarioBlinks + 2

\* C19: the rate an update returns is 0 when the window it leaves is
\* empty, and otherwise count * 60 / max(now - earliest, 1 s) blinks per
\* minute for the count and the earliest timestamp of that window; for
\* blinks every 2 s, the first at t = 0, the update 2 s after the last of
\* them (t = 40 s for 20 blinks) sees them all, returns 30 blinks per
\* minute and low_blink_alert = false.
C19_BlinkRateOverWindowSpan ==
    blink_calls > 0 =>
        LET rate == blink_info.blink_rate_bpm
            now == blink_call.now
        IN  /\ rate[2] > 0
            /\ IF recent_blinks = << >>
               THEN rate[1] = 0
               ELSE rate[1] * Max(now - recent_blinks[1], TicksPerSecond)
                        = Len(recent_blinks) * 60 * TicksPerSecond * rate[2]
            /\ ScenarioOver =>
                  /\ Len(recent_blinks) = ScenarioBlinks
                  /\ all_blinks = recent_blinks
                  /\ now - recent_blinks[1] = ScenarioBlinks * ScenarioPeriod
                  /\ rate[1] = 30 * rate[2]
                  /\ ~blink_info.low_blink_alert

\* C19 witness: the update at t = 40 s after 20 blinks, the first at
\* t = 0, returned 30 blinks per minute.
C19_Witness ==
    /\ ScenarioOver
    /\ Len(recent_blinks) = 4 * 5
    /\ blink_call.now - recent_blinks[1] = 40 * TicksPerSecond
    /\ blink_info.blink_rate_bpm[1] = 30 * blink_info.blink_rate_bpm[2]

\* C20: an update returns low_blink_alert = true if and only if the
\* window it leaves is non-empty, now - earliest >= 30 s, the rate it
\* returns is above 0 and below min_blinks_per_minute, and
\* now - last_alert_time (as it was before the update) is at least
\* alert_cooldown_seconds; an update that alerts sets last_alert_time to
\* now and any other leaves it; none alerts on an empty window.
C20_LowBlinkAlertConditions ==
    blink_calls > 0 =>
        LET rate == blink_info.blink_rate_bpm
            now == blink_call.now
            due == /\ recent_blinks # << >>
                   /\ now - recent_blinks[1] >= 30 * TicksPerSecond
                   /\ rate[1] > 0
                   /\ rate[1] < min_blinks_per_minute * rate[2]
                   /\ now - blink_call.last_alert_before
                         >= blink_alert_cooldown_seconds
        IN  /\ blink_info.low_blink_alert <=> due
            /\ blink_last_alert_time =
                  (IF blink_info.low_blink_alert THEN now
                   ELSE blink_call.last_alert_before)
            /\ recent_blinks = << >> => ~blink_info.low_blink_alert

\* C20 witness: an alert on a window whose earliest blink is exactly 30 s
\* old.
C20_Witness ==
    /\ blink_calls > 0
    /\ blink_info.low_blink_alert
    /\ recent_blinks # << >>
    /\ blink_call.now - recent_blinks[1] = min_observation_time
    /\ blink_last_alert_time = blink_call.now

-----------------------------------------------------------------------------
(***************************************************************************)
(* Claims about the PostureDetector's state                                *)
(***************************************************************************)

\* C25: in every reachable state poor_since is set only if the most recent
\* update was classified poor, and then it is the `now` of the first update
\* of the uninterrupted run of poor classifications in progress; after an
\* update classified good poor_since is None and current_state is "good".
C25_PoorSinceIsStartOfCurrentPoorRun ==
    /\ ~IsNone(poor_since) =>
          /\ posture_calls > 0
          /\ posture_call.poor
          /\ ~IsNone(poor_run)
          /\ Val(poor_since) = Val(poor_run).start
    /\ (posture_calls > 0 /\ ~posture_call.poor) =>
          /\ poor_since = None
          /\ current_state = "good"

\* C25 witness: a later update of a poor run that began right after a good
\* classification; poor_since still holds the time of the run's first
\* update.
C25_Witness ==
    /\ ~IsNone(poor_since)
    /\ ~IsNone(poor_run)
    /\ Val(poor_run).after_good
    /\ posture_call.prev_poor
    /\ Val(poor_since) < posture_call.now

\* the time since the previous update, 0 on the first update
SincePreviousUpdate ==
    IF IsNone(posture_call.prev) THEN 0
    ELSE Max(0, posture_call.now - Val(posture_call.prev))

\* the last update went on with a poor run: classified poor, and so was
\* the update before it
ContinuedPoorRun == posture_call.poor /\ posture_call.prev_poor

\* C26: an update adds max(0, now - previous update time) to
\* poor_posture_seconds exactly when it is classified poor and the update
\* before it was too (poor_since was already set); the first update, a good
\* update and the update that enters poor add nothing.  poor_posture_seconds
\* and alert_count never decrease, and alert_count is the number of updates
\* that returned posture_alert = true.
C26_PoorSecondsAccumulateWithinPoorRun ==
    /\ [](posture_calls > 0 =>
            poor_posture_seconds - posture_call.seconds_before =
               IF ContinuedPoorRun THEN SincePreviousUpdate ELSE 0)
    /\ [](alert_count = posture_alerts_returned)
    /\ [][/\ poor_posture_seconds' >= poor_posture_seconds
          /\ alert_count' >= alert_count]_vars

\* C26 witness: an update inside a poor run added the time since the
\* previous update to seconds accumulated earlier, one alert having been
\* returned.
C26_Witness ==
    /\ ContinuedPoorRun
    /\ posture_call.seconds_before > 0
    /\ poor_posture_seconds = posture_call.seconds_before + SincePreviousUpdate
    /\ SincePreviousUpdate > 0
    /\ alert_count = 1

\* twice the y of the face's centre, cy = y + h / 2, and the frame height
\* of the last update
TwiceCentreY == 2 * posture_call.face_rect.y + posture_call.face_rect.h
CallFrameHeight == posture_call.frame_shape[1]

\* C27: an update classifies the face poor exactly when
\* (cy - height / 2) / (height / 2) > tilt_threshold, strictly: an offset
\* equal to the threshold, and a centre at or above the frame centre, are
\* good, whatever the state before the update.
C27_PoorIffOffsetAboveThreshold ==
    posture_calls > 0 =>
        /\ posture_info.state = current_state
        /\ current_state = "poor" <=>
              10 * (TwiceCentreY - CallFrameHeight)
                 > tilt_threshold * CallFrameHeight
        /\ 10 * (TwiceCentreY - CallFrameHeight)
              = tilt_threshold * CallFrameHeight => current_state = "good"
        /\ TwiceCentreY <= CallFrameHeight => current_state = "good"

\* C27 witness: a face whose offset equals the threshold, right after an
\* update classified poor, is good.
C27_Witness ==
    /\ posture_calls > 0
    /\ posture_call.prev_poor
    /\ 10 * (TwiceCentreY - CallFrameHeight)
          = tilt_threshold * CallFrameHeight
    /\ current_state = "good"

-----------------------------------------------------------------------------
(***************************************************************************)
(* Claims about the BlinkDetector's state                                  *)
(***************************************************************************)

\* C28: eye_closed_start is the `now` of the open-to-closed transition that
\* began the run of closed observations in progress, and None in every
\* other state: after a closed-to-open transition, qualified as a blink or
\* not, and during a closure that began with the very first observation.
\* So it is set only while the last observation is closed, and a closure
\* that began with the first observation records no blink.
C28_EyeClosedStartOnlyWhileClosed ==
    /\ eye_closed_start =
          IF ~IsNone(closed_run) /\ Val(closed_run).after_open
          THEN Some(Val(closed_run).start)
          ELSE None
    /\ ~IsNone(eye_closed_start) =>
          /\ blink_calls > 0
          /\ ~blink_call.eyes_open
          /\ last_eye_state_open = Some(FALSE)
    /\ (EndedClosure /\ ~ClosureAfterOpen) => NothingRecorded

\* C28 witness: a closure that began with the first observation and lasted
\* 0.3 s ended, nothing was recorded and eye_closed_start is None.
C28_Witness ==
    /\ blink_calls > 0
    /\ EndedClosure /\ ~ClosureAfterOpen /\ ClosureDuration = 6
    /\ eye_closed_start = None
    /\ all_blinks = << >>

-----------------------------------------------------------------------------
(***************************************************************************)
(* SpecViewing: one MonitorThread on its own, started with a break         *)
(* interval of 30 s, in front of a viewer who stays low in the frame and   *)
(* close to the camera and may blink; frames 0.3 s and 30 s apart.  A      *)
(* cycle can then publish every event of the code.                         *)
(***************************************************************************)
ViewingBreak == 30 * TicksPerSecond

NextViewing == MonitorThread_run

InitViewing ==
    /\ clock_steps = ViewingSteps
    /\ camera_faces = ViewingFaces
    /\ Started(ViewingBreak)

SpecViewing == InitViewing /\ [][NextViewing]_vars

\* the order in which a face cycle publishes
CycleOrder ==
    <<"distance_update", "distance_warning", "blink_rate_update",
      "blink_low", "posture_update", "posture_warning", "break_reminder">>
Rank(name) == CHOOSE i \in DOMAIN CycleOrder : CycleOrder[i] = name

\* the names of a sequence of events
Names(events) == [i \in DOMAIN events |-> events[i].name]

\* in the cycle's events, every `later` event comes after an `earlier` one
PrecededBy(later, earlier) ==
    \A j \in DOMAIN cycle_log :
        cycle_log[j].name = later =>
            \E i \in 1 .. (j - 1) : cycle_log[i].name = earlier

\* the newest entries of the queue, as many as the cycle has published
NewestQueued ==
    SubSeq(event_queue, Len(event_queue) - Len(cycle_log) + 1,
           Len(event_queue))

\* C29: within one face cycle the events are enqueued in the order
\* distance_update, distance_warning, blink_rate_update, blink_low,
\* posture_update, posture_warning, break_reminder, each at most once, and
\* a distance_warning, blink_low or posture_warning has its update event
\* before it in the same cycle.
C29_FaceCycleEventsInFixedOrder ==
    cycle_stage = "face" =>
        /\ \A i, j \in DOMAIN cycle_log :
              i < j => Rank(cycle_log[i].name) < Rank(cycle_log[j].name)
        /\ PrecededBy("distance_warning", "distance_update")
        /\ PrecededBy("blink_low", "blink_rate_update")
        /\ PrecededBy("posture_warning", "posture_update")
        /\ Len(event_queue) >= Len(cycle_log)
        /\ Names(NewestQueued) = Names(cycle_log)

\* C29 witness: a face cycle that published all seven events.
C29_Witness ==
    /\ cycle_stage = "face"
    /\ Names(cycle_log) = CycleOrder
    /\ Names(NewestQueued) = CycleOrder

-----------------------------------------------------------------------------
(***************************************************************************)
(* Claims about the two threads of a session                               *)
(***************************************************************************)

\* the state the claims call analyzer state and session counters
analyzer_state == <<blink_vars, posture_vars>>
session_counters == <<too_close_events, break_alerts>>

\* run() has not returned: the loop thread is alive
LoopAlive == pc # "done"

\* C22: while the loop is alive, the analyzer state and the session
\* counters are read and written by the loop thread only: a step that
\* changes them is a step of run(), and the window's thread evaluates
\* get_session_stats, which reads them, only when run() has returned.
C22_AnalyzerStateOwnedByLoopThread ==
    [][/\ (analyzer_state' # analyzer_state
            \/ session_counters' # session_counters) => pc' # pc
       /\ session_stats' # session_stats => ~LoopAlive]_vars

\* C23: get_session_stats is evaluated only after run() has returned, and
\* what it returned carries the final counts: once it has been evaluated,
\* too_close_events and break_alerts are what the record says and the
\* analyzers hold the blinks and the posture alerts it says.
C23_StatsReadAfterLoopEnded ==
    ~IsNone(session_stats) =>
        LET stats == Val(session_stats).stats
        IN  /\ ~LoopAlive
            /\ stats.too_close_events = too_close_events
            /\ stats.break_alerts = break_alerts
            /\ "total_blinks" \in DOMAIN stats =>
                  stats.total_blinks = Len(all_blinks)
            /\ "poor_posture_alerts" \in DOMAIN stats =>
                  stats.poor_posture_alerts = alert_count

-----------------------------------------------------------------------------
(***************************************************************************)
(* The break spinners: VisionMateWindow._on_break_time_changed.            *)
(* SpecSettings: the loop, the window that stops it, and the user turning  *)
(* the spinners at any moment, with frames spaced around half the default  *)
(* break interval.                                                         *)
(***************************************************************************)

\* the values the user gives a spinner (ranges 0..23, 0..59 and 0..59)
SpinValues ==
    [hours |-> {0, 1}, minutes |-> {0, 35}, seconds |-> {0}]

\* total = hours * 3600 + minutes * 60 + seconds, in seconds
BreakTotal(spin) == spin.hours * 3600 + spin.minutes * 60 + spin.seconds

\* (a slip: the interval of the thread is written whether or not the
\* window still holds the thread)
ThreadBreakInterval_AfterStopToo(total) == total

\* lines 1297-1298: the running thread's break_interval_seconds follows
\* the spinners while the window holds the thread
ThreadBreakInterval(total) ==
    IF ~IsNone(monitor_thread) THEN total ELSE break_interval_seconds

\* _on_break_time_changed, the valueChanged handler of the three spinners:
\* the user has given one spinner another value
VisionMateWindow_on_break_time_changed ==
    /\ \E field \in DOMAIN SpinValues :
          \E value \in SpinValues[field] :
             /\ value # break_spin[field]
             /\ LET turned == [break_spin EXCEPT ![field] = value]
                    zero == BreakTotal(turned) <= 0
                    total == (IF zero THEN 60 ELSE BreakTotal(turned))
                                * TicksPerSecond
                IN  /\ break_spin' =
                          IF zero
                          THEN [hours |-> 0, minutes |-> 1, seconds |-> 0]
                          ELSE turned
                    /\ break_seconds' = total
                    /\ break_interval_seconds' = ThreadBreakInterval(total)
    /\ UNCHANGED <<pc, stop_event, cap, last_frame_time, continuous_face_time,
                   last_face_seen_time, last_distance_alert_time,
                   too_close_events, break_alerts,
                   loop_now, loop_dt, face>>
    /\ UNCHANGED <<call_vars, camera_faces, monitoring_active, monitor_thread,
                   session_vars>>
    /\ UNCHANGED <<cycle_history, clock, clock_steps, detector_vars, channel,
                   consumed, monitor_history>>

NextSettings ==
    \/ MonitorThread_run
    \/ MonitorThread_stop
    \/ VisionMateWindow_on_break_time_changed

\* the camera shows no face or a centred one
SettingsFaces == {None, Some(FaceCentred)}

InitSettings ==
    /\ clock_steps = BreakSteps
    /\ camera_faces = SettingsFaces
    /\ Started(default_break_seconds)

SpecSettings == InitSettings /\ [][NextSettings]_vars

\* C21 as stated: the break interval of a monitoring loop, like its other
\* configuration values, keeps the value it was constructed with.
C21_ConfigurationKeepsConstructionValue ==
    [][break_interval_seconds' = break_interval_seconds]_vars

\* C21 amended: no step of the loop changes its break interval; the one
\* step that does is the window's _on_break_time_changed while the window
\* holds the thread, which sets it to the new break_seconds.  (The other
\* configuration values are definitions of this module: no step can
\* change them.)
C21_BreakIntervalFollowsSpinnersOnly ==
    [][break_interval_seconds' # break_interval_seconds =>
          /\ ~IsNone(monitor_thread)
          /\ break_seconds' # break_seconds
          /\ break_interval_seconds' = break_seconds'
          /\ pc' = pc]_vars

\* C21 witness: a cycle in flight whose thread has a break interval other
\* than the one it was constructed with.
C21_Witness ==
    /\ InCycle
    /\ ~stop_event
    /\ break_interval_seconds # default_break_seconds
    /\ break_interval_seconds = break_seconds

-----------------------------------------------------------------------------
(***************************************************************************)
(* The sessions of a window.  VisionMateWindow creates one MonitorThread   *)
(* per start_monitoring, all on the one event queue it made in __init__    *)
(* (line 979).  Here every thread is followed through run() by position    *)
(* only: setup, the while test, a cycle, the finally clause; a cycle whose  *)
(* read succeeds posts what an early cycle of a session posts, for no face *)
(* or for a centred one.  An event carries the number of the thread that   *)
(* posted it (observer only: the tuple of the code has no such field).     *)
(* The window's thread runs one handler at a time; stop_monitoring waits   *)
(* in join(timeout=3.0) until the thread has ended or 3 s are over.        *)
(***************************************************************************)

\* MonitorThread(self.event_queue, break_interval_seconds=...).start()
NewThread(interval) ==
    [pc |-> "start", stop_event |-> FALSE, cycles |-> 0,
     break_interval_seconds |-> interval, summary |-> "none"]

\* run() of thread t has not returned
ThreadAlive(t) == threads[t].pc # "done"

\* _post_event of thread t, once for each event of `events`
PostFrom(t, events) ==
    LET q == PostEvents(event_queue, published, events)
    IN  /\ event_queue' =
              [i \in DOMAIN q |->
                  IF i > Len(event_queue) THEN q[i] @@ [session |-> t]
                  ELSE q[i]]
        /\ published' = published + Len(events)

\* the frame of a step of the sessions: the step-by-step thread of the
\* sections above does not run
step_by_step == <<clock, clock_steps, camera_faces, detector_vars,
                  monitor_vars, monitor_history, cycle_history, call_vars,
                  cycle_log, break_seconds, break_spin, test_vars>>

\* lines 133-136: the face model is checked
Session_RunStart(t) ==
    /\ threads[t].pc = "start"
    /\ \E cascade_empty \in BOOLEAN :
          IF cascade_empty
          THEN /\ PostFrom(t, SetupFailureEvents("no face model"))
               /\ threads' = [threads EXCEPT ![t].pc = "done"]
          ELSE /\ threads' = [threads EXCEPT ![t].pc = "open_camera"]
               /\ UNCHANGED <<event_queue, published>>
    /\ UNCHANGED <<monitoring_active, monitor_thread, joining, error_stop,
                   display, consumed, step_by_step>>

\* lines 138-147: the camera is opened
Session_OpenCamera(t) ==
    /\ threads[t].pc = "open_camera"
    /\ \E opened \in BOOLEAN :
          IF opened
          THEN /\ threads' = [threads EXCEPT ![t].pc = "loop_top"]
               /\ UNCHANGED <<event_queue, published>>
          ELSE /\ PostFrom(t, SetupFailureEvents("no webcam"))
               /\ threads' = [threads EXCEPT ![t].pc = "done"]
    /\ UNCHANGED <<monitoring_active, monitor_thread, joining, error_stop,
                   display, consumed, step_by_step>>

\* line 150: while not self.stop_event.is_set()
Session_LoopTop(t) ==
    /\ threads[t].pc = "loop_top"
    /\ IF threads[t].stop_event
       THEN threads' = [threads EXCEPT ![t].pc = "finally"]
       ELSE /\ threads[t].cycles < MaxCycles
            /\ threads' = [threads EXCEPT ![t].pc = "cycle",
                                          ![t].cycles = @ + 1]
    /\ UNCHANGED <<monitoring_active, monitor_thread, joining, error_stop,
                   display, event_queue, published, consumed, step_by_step>>

\* lines 173-222: what an early cycle of a session publishes for a face:
\* the rounded distance, the blink rate of a detector that has not seen a
\* blink yet, the posture of the face; no warning is due yet
FaceEvents(face_rect) ==
    <<Event("distance_update",
            Some(RoundTenths(Val(EstimateDistanceCm(face_rect.w)))))>>
    \o BlinkEvents([blink_rate_bpm |-> <<0, 1>>, low_blink_alert |-> FALSE])
    \o <<Event("posture_update",
               <<IF IsPoor(face_rect, FrameShape) THEN "poor" ELSE "good">>)>>

\* lines 151-233: one cycle; a failed read posts nothing
Session_Cycle(t) ==
    /\ threads[t].pc = "cycle"
    /\ \E ret \in BOOLEAN, faces \in camera_faces :
          IF ret
          THEN PostFrom(t, IF IsNone(faces) THEN NoFaceEvents
                           ELSE FaceEvents(Val(faces)))
          ELSE UNCHANGED <<event_queue, published>>
    /\ threads' = [threads EXCEPT ![t].pc = "loop_top"]
    /\ UNCHANGED <<monitoring_active, monitor_thread, joining, error_stop,
                   display, consumed, step_by_step>>

\* lines 234-235: finally: cap.release(), and run() is over
Session_ReleaseCamera(t) ==
    /\ threads[t].pc = "finally"
    /\ threads' = [threads EXCEPT ![t].pc = "done"]
    /\ UNCHANGED <<monitoring_active, monitor_thread, joining, error_stop,
                   display, event_queue, published, consumed, step_by_step>>

\* a step of one of the threads
Session_run ==
    \E t \in DOMAIN threads :
        \/ Session_RunStart(t)
        \/ Session_OpenCamera(t)
        \/ Session_LoopTop(t)
        \/ Session_Cycle(t)
        \/ Session_ReleaseCamera(t)

\* the early return of start_monitoring (line 1302)
AlreadyMonitoring == monitoring_active /\ ~IsNone(monitor_thread)

\* lines 1305-1311: a new thread on the window's queue, started
CreateThread ==
    /\ Len(threads) < MaxSessions
    /\ threads' = Append(threads, NewThread(break_seconds))
    /\ monitor_thread' = Some(Len(threads) + 1)
    /\ monitoring_active' = TRUE
    /\ status_text' = "Monitoring: ON"
    /\ current_emoji' = "smiling"
    /\ UNCHANGED <<distance_text, blink_text, posture_text>>

\* start_monitoring
VisionMateWindow_start_monitoring ==
    /\ IsNone(joining)
    /\ ~AlreadyMonitoring
    /\ CreateThread
    /\ UNCHANGED <<joining, error_stop, event_queue, published, consumed,
                   step_by_step>>

\* run_in_background_mode (lines 1387-1402): it starts the monitoring
\* unless the window is monitoring, then shows the tray window
VisionMateWindow_run_in_background_mode ==
    /\ IsNone(joining)
    /\ ~monitoring_active \/ IsNone(monitor_thread)
    /\ CreateThread
    /\ UNCHANGED <<joining, error_stop, event_queue, published, consumed,
                   step_by_step>>

\* stop_monitoring up to join (lines 1321-1331): the window forgets the
\* thread, sets its stop event and waits for it
StopAndJoin ==
    /\ monitoring_active /\ ~IsNone(monitor_thread)
    /\ monitoring_active' = FALSE
    /\ monitor_thread' = None
    /\ threads' = [threads EXCEPT ![Val(monitor_thread)].stop_event = TRUE]
    /\ joining' = monitor_thread
    /\ UNCHANGED display

\* stop_monitoring, called by the user
VisionMateWindow_stop_monitoring ==
    /\ IsNone(joining)
    /\ StopAndJoin
    /\ UNCHANGED <<error_stop, event_queue, published, consumed,
                   step_by_step>>

\* stop_monitoring from join on (lines 1331-1343): join returns, because
\* the thread has ended or because 3 s are over, get_session_stats is
\* evaluated and logged, and the display is set to its idle values
VisionMateWindow_join_returns ==
    /\ ~IsNone(joining)
    /\ threads' = [threads EXCEPT ![Val(joining)].summary =
                      IF ThreadAlive(Val(joining)) THEN "alive" ELSE "ended"]
    /\ joining' = None
    /\ status_text' = "Monitoring: OFF"
    /\ distance_text' = None
    /\ current_emoji' = "sleeping"
    /\ UNCHANGED <<blink_text, posture_text>>
    /\ UNCHANGED <<monitoring_active, monitor_thread, error_stop,
                   event_queue, published, consumed, step_by_step>>

\* lines 1419-1435: the emoji of a distance update; the threshold is
\* monitor_thread.min_distance_cm or, without a thread, 40.0: 40 cm both
DistanceEmoji(distance) ==
    IF IsNone(distance) THEN "neutral"
    ELSE IF Val(distance) < 10 * min_distance_cm THEN "angry"
    ELSE "smiling"

\* lines 1419-1527: what the branch of event e displays.  A distance is
\* shown with one decimal (it was rounded to one by the loop), a blink
\* rate with one decimal; the alert line, the notifications, the bubble
\* and the break overlay are not followed.
ShowEvent(e) ==
    /\ status_text' = status_text
    /\ distance_text' =
          IF e.name = "distance_update" THEN e.payload ELSE distance_text
    /\ current_emoji' =
          IF e.name = "distance_update" THEN DistanceEmoji(e.payload)
          ELSE IF e.name = "blink_low" THEN "sleeping"
          ELSE current_emoji
    /\ blink_text' =
          IF e.name = "blink_rate_update" THEN Some(RoundTenths(e.payload))
          ELSE blink_text
    /\ posture_text' =
          IF e.name = "posture_update"
          THEN (IF e.payload[1] = "good" THEN "Posture: Good"
                ELSE IF e.payload[1] = "poor" THEN "Posture: Poor"
                ELSE "Posture: Unknown")
          ELSE IF e.name = "posture_warning" /\ e.payload[1] = "poor"
               THEN "Posture: Poor"
          ELSE posture_text

\* _process_events, one turn of its loop: get_nowait() and the branch of
\* that event; the error branch calls stop_monitoring if the window is
\* monitoring (lines 1528-1533)
VisionMateWindow_process_events ==
    /\ IsNone(joining)
    /\ event_queue # << >>
    /\ LET got == QueueGet(event_queue)
       IN  /\ event_queue' = got.rest
           /\ consumed' = Append(consumed, got.item.seq)
           /\ IF got.item.name = "error" /\ AlreadyMonitoring
              THEN /\ StopAndJoin
                   /\ error_stop' = Some([session |-> Val(monitor_thread),
                                          from |-> got.item.session])
              ELSE /\ ShowEvent(got.item)
                   /\ UNCHANGED <<monitoring_active, monitor_thread, threads,
                                  joining, error_stop>>
    /\ UNCHANGED <<published, step_by_step>>

NextWindow ==
    \/ Session_run
    \/ VisionMateWindow_start_monitoring
    \/ VisionMateWindow_run_in_background_mode
    \/ VisionMateWindow_stop_monitoring
    \/ VisionMateWindow_join_returns
    \/ VisionMateWindow_process_events

\* the window after __init__: not monitoring, no thread, an empty queue
WindowConstructed ==
    /\ clock_steps = AbsenceSteps
    /\ camera_faces = SettingsFaces
    /\ monitoring_active = FALSE
    /\ monitor_thread = None
    /\ break_seconds = default_break_seconds
    /\ break_spin = SpinnersOf(default_break_seconds)
    /\ threads = << >>
    /\ joining = None
    /\ error_stop = None
    /\ DisplayInit
    /\ Constructed

InitWindow == WindowConstructed /\ NoVisionTest

SpecWindow == InitWindow /\ [][NextWindow]_vars

\* C24: across start_monitoring, stop_monitoring, run_in_background_mode
\* and the handling of error events, at most one monitoring loop is alive
\* at any time.
C24_AtMostOneLoopAlive ==
    Cardinality({t \in DOMAIN threads : ThreadAlive(t)}) <= 1

\* C30: an error event stops only the session whose loop published it: the
\* thread the error branch of _process_events stops is the thread that
\* posted the error.
C30_ErrorStopsItsOwnSession ==
    ~IsNone(error_stop) =>
        Val(error_stop).session = Val(error_stop).from

-----------------------------------------------------------------------------
(***************************************************************************)
(* Claims about the session counters and the timers                        *)
(***************************************************************************)

\* the events of that name in the queue; in SpecViewing nothing is
\* dequeued, so they are the events the loop has placed on the channel
Queued(name) == SelectSeq(event_queue, LAMBDA e : e.name = name)

NextGap == MonitorThread_run

InitGap ==
    /\ clock_steps = GapSteps
    /\ camera_faces = GapFaces
    /\ Started(default_break_seconds)

SpecGap == InitGap /\ [][NextGap]_vars

\* a cycle ends without a face: no frame was read, or no face was found
GapCycleEnds == pc' = "loop_top" /\ pc \in {"read", "detect"}

\* C34: a cycle without a face and a cycle whose frame could not be read
\* call neither analyzer and leave all blink and posture state unchanged;
\* so a poor streak that continues after such cycles keeps its start and
\* adds the whole time since the update before them, and an eye closure
\* that ends after such cycles is measured from its start.
C34_GapLeavesAnalyzersUntouched ==
    /\ [][GapCycleEnds =>
              /\ UNCHANGED <<blink_vars, posture_vars>>
              /\ blink_calls' = blink_calls
              /\ posture_calls' = posture_calls]_vars
    /\ [](posture_call.prev_poor /\ posture_call.poor =>
              /\ poor_since = Some(Val(poor_run).start)
              /\ poor_posture_seconds =
                    posture_call.seconds_before
                      + (posture_call.now - Val(posture_call.prev)))
    /\ [](/\ blink_call.eyes_open
          /\ ~IsNone(blink_call.ended)
          /\ Val(blink_call.ended).after_open
          => (all_blinks = Append(blink_call.all_before, blink_call.now)
                <=> IsBlinkDuration(blink_call.now
                                      - Val(blink_call.ended).start)))

\* C34 witness: a face with poor posture and closed eyes, then a frame
\* without a face, then a frame that could not be read (the inter-frame
\* delta of the next cycle spans two steps), then the face again, poor
\* and with open eyes: the 0.6 s since the update before the gap are
\* added to the poor time and the closure of 0.6 s is counted as a blink.
C34_Witness ==
    /\ pc = "break_check"
    /\ loop_dt = 8
    /\ ~IsNone(posture_call.prev)
    /\ loop_now - loop_dt > Val(posture_call.prev)
    /\ posture_call.prev_poor /\ posture_call.poor
    /\ poor_posture_seconds - posture_call.seconds_before = 12
    /\ ~IsNone(blink_call.ended)
    /\ Val(blink_call.ended).start = Val(posture_call.prev)
    /\ all_blinks = Append(blink_call.all_before, loop_now)

\* stop_monitoring of session s has returned
StopReturned(s) == threads[s].summary # "none"

\* the window is not monitoring and is in no handler: no session has been
\* started since the last stop_monitoring returned
NotMonitoring ==
    ~monitoring_active /\ IsNone(monitor_thread) /\ IsNone(joining)

\* C31: once stop_monitoring has returned, and until the next
\* start_monitoring, no event of the stopped session changes the displayed
\* distance, emoji, blink rate or posture.
C31_StoppedSessionLeavesDisplay ==
    [][/\ NotMonitoring
       /\ event_queue # << >>
       /\ event_queue' = Tail(event_queue)
       /\ StopReturned(Head(event_queue).session)
       => UNCHANGED <<distance_text, current_emoji, blink_text,
                      posture_text>>]_vars

\* the loop is between two cycles: the last one has ended, sleep included
CycleEnded == pc = "loop_top" /\ cycles > 0

\* C33 as stated: at the end of every cycle
\* 0 <= continuous_face_time < break_interval_seconds, whatever the cycles
\* were and whatever the window did meanwhile.
C33_ViewingTimeBelowBreakInterval ==
    CycleEnded =>
        /\ 0 <= continuous_face_time
        /\ continuous_face_time < break_interval_seconds

\* C33 amended: continuous_face_time is never negative; at the end of a
\* cycle with a face it is below the break interval its break check
\* compared it with; a cycle without a face or without a frame does not
\* increase it.  (The window may lower the interval of the running thread
\* after the check, or before a cycle that makes no check.)
C33_ViewingTimeBelowIntervalChecked ==
    /\ [](0 <= continuous_face_time /\ break_interval_seconds > 0)
    /\ [][pc = "break_check" /\ pc' = "loop_top" =>
              /\ continuous_face_time' < break_interval_seconds
              /\ break_interval_seconds' = break_interval_seconds]_vars
    /\ [][pc' = "loop_top" /\ pc \in {"read", "detect"} =>
              (continuous_face_time' <= continuous_face_time)]_vars

\* C33 witness: a cycle with a face has ended with a break reminder that
\* became due because the window had lowered the interval of the running
\* thread.
C33_Witness ==
    /\ CycleEnded
    /\ cycle_stage = "face"
    /\ break_alerts = 1
    /\ continuous_face_time = 0
    /\ break_interval_seconds < default_break_seconds

\* run() is inside its while loop (lines 150-233)
LoopRunning == pc = "loop_top" \/ InCycle

\* C38: after any sequence of spinner changes break_seconds is positive
\* and is the total the spinners show (a zero total has been replaced by
\* 60 s, shown as 0 h 1 m 0 s), and the break interval of a monitoring
\* loop that is running equals break_seconds.
C38_RunningLoopHasWindowBreakSeconds ==
    /\ break_seconds > 0
    /\ break_seconds = BreakTotal(break_spin) * TicksPerSecond
    /\ LoopRunning => break_interval_seconds = break_seconds

-----------------------------------------------------------------------------
(***************************************************************************)
(* VisionTestDialog (src/main.py:299-779): a run of test items, each shown *)
(* for 3 to 5 s.  _next_case schedules a single-shot timer that carries    *)
(* the index of its item; the user may answer or skip before it fires, so  *)
(* timers of earlier items are pending while a later item is shown.  A     *)
(* pending timer fires at any time: durations and answer times are free.   *)
(* The countdown label is followed by the state of its timer only.         *)
(***************************************************************************)

\* len(self.test_cases)
MaxItems == 3

\* what the answer field holds when Submit is pressed: nothing but blanks,
\* the text of the item, or another text
UserTexts == {"", "same", "other"}

\* everything of the window but the vision test
monitoring_side == <<clock, clock_steps, camera_faces, detector_vars,
                     monitor_vars, monitor_history, cycle_history, call_vars,
                     channel, consumed, monitoring_active, monitor_thread,
                     break_seconds, break_spin, threads, joining, error_stop,
                     display>>

\* everything but the VisionTestDialog
dialog_frame == <<monitoring_side, page_vars, page_history>>

\* the dialog is open on an item
ItemShown ==
    dialog = "open" /\ current_index >= 0 /\ current_index < MaxItems

\* _next_case (lines 471-528), after a response made the list `recorded`
\* and the handler left the label showing `label`: the next item is shown
\* and its timer scheduled, or, past the last item, _finish_test (658-755)
\* ends the run
NextCase(recorded, label) ==
    /\ current_index' = current_index + 1
    /\ responses' = recorded
    /\ IF current_index + 1 >= MaxItems
       THEN /\ dialog' = IF recorded = << >> THEN "rejected" ELSE "accepted"
            /\ viewing_active' = FALSE
            /\ viewing_index' = None
            /\ text_label' = label
            /\ countdown_active' =
                  IF recorded = << >> THEN countdown_active ELSE FALSE
            /\ UNCHANGED <<hide_timers, last_fired>>
       ELSE /\ dialog' = dialog
            /\ viewing_active' = TRUE
            /\ viewing_index' = Some(current_index + 1)
            /\ text_label' = Some(current_index + 1)
            /\ countdown_active' = TRUE
            /\ hide_timers' = hide_timers \cup {current_index + 1}
            /\ UNCHANGED last_fired

\* _record_response (lines 583-622): Submit or Return; an answer of blanks
\* is refused with a warning and nothing changes
VisionTestDialog_record_response ==
    /\ ItemShown
    /\ \E user_text \in UserTexts :
          IF user_text = ""
          THEN UNCHANGED dialog_vars
          ELSE NextCase(Append(responses,
                               [item |-> current_index,
                                user_input |-> user_text,
                                correct |-> user_text = "same",
                                skipped |-> FALSE]),
                        text_label)
    /\ UNCHANGED dialog_frame

\* _skip_current (lines 624-655)
VisionTestDialog_skip_current ==
    /\ ItemShown
    /\ NextCase(Append(responses,
                       [item |-> current_index, user_input |-> "",
                        correct |-> FALSE, skipped |-> TRUE]),
                None)
    /\ UNCHANGED dialog_frame

\* (a slip: the timer looks at the viewing flag only, not at its item)
TimerApplies_AnyItem(index) == viewing_active

\* the three early returns of _end_viewing_current_case (lines 565-570)
TimerApplies(index) ==
    /\ viewing_active
    /\ viewing_index = Some(index)
    /\ current_index = index

\* _end_viewing_current_case(index) (lines 556-581): the single-shot timer
\* of item `index` fires
VisionTestDialog_end_viewing_current_case ==
    /\ \E index \in hide_timers :
          /\ hide_timers' = hide_timers \ {index}
          /\ last_fired' = Some([index |-> index, shown |-> current_index,
                                 viewing |-> viewing_active])
          /\ IF TimerApplies(index)
             THEN /\ viewing_active' = FALSE
                  /\ viewing_index' = None
                  /\ countdown_active' = FALSE
                  /\ text_label' = None
             ELSE UNCHANGED <<viewing_active, viewing_index,
                              countdown_active, text_label>>
    /\ UNCHANGED <<dialog, current_index, responses>>
    /\ UNCHANGED dialog_frame

\* _on_countdown_tick (lines 530-544): the countdown stops itself outside
\* a viewing phase and when the remaining time has run out
VisionTestDialog_on_countdown_tick ==
    /\ countdown_active
    /\ \E ran_out \in BOOLEAN :
          countdown_active' =
              IF ~viewing_active \/ IsNone(viewing_index) THEN FALSE
              ELSE ~ran_out
    /\ UNCHANGED <<dialog, current_index, responses, viewing_active,
                   viewing_index, text_label, hide_timers, last_fired>>
    /\ UNCHANGED dialog_frame

\* _on_close (lines 757-779): the viewing phase is ended, then, if there
\* are responses, the user is asked and may stay
VisionTestDialog_on_close ==
    /\ dialog = "open"
    /\ viewing_active' = FALSE
    /\ viewing_index' = None
    /\ countdown_active' = FALSE
    /\ \E reply_yes \in BOOLEAN :
          dialog' = IF responses = << >> \/ reply_yes THEN "rejected"
                    ELSE dialog
    /\ UNCHANGED <<current_index, responses, text_label, hide_timers,
                   last_fired>>
    /\ UNCHANGED dialog_frame

NextDialog ==
    \/ VisionTestDialog_record_response
    \/ VisionTestDialog_skip_current
    \/ VisionTestDialog_end_viewing_current_case
    \/ VisionTestDialog_on_countdown_tick
    \/ VisionTestDialog_on_close

\* VisionTestDialog.__init__ (lines 310-336): no responses, and _next_case
\* has shown item 0 and scheduled its timer
InitDialog ==
    /\ WindowConstructed
    /\ PageConstructed
    /\ dialog = "open"
    /\ current_index = 0
    /\ responses = << >>
    /\ viewing_active = TRUE
    /\ viewing_index = Some(0)
    /\ text_label = Some(0)
    /\ countdown_active = TRUE
    /\ hide_timers = {0}
    /\ last_fired = None

SpecDialog == InitDialog /\ [][NextDialog]_vars

\* the single-shot timer of item i fires
TimerFires(i) == i \in hide_timers /\ hide_timers' = hide_timers \ {i}

\* C37: the hide-text timer scheduled for item i clears the text only if
\* item i is still the current item and in its viewing phase when the
\* timer fires; the timer of an item already answered or skipped never
\* hides the text of a later item nor ends its viewing phase.
C37_StaleTimerLeavesLaterItem ==
    [][\A i \in 0..(MaxItems - 1) :
          TimerFires(i) =>
              /\ text_label' # text_label =>
                    /\ current_index = i
                    /\ viewing_active
                    /\ viewing_index = Some(i)
                    /\ text_label' = None
              /\ i < current_index =>
                    UNCHANGED <<text_label, viewing_active, viewing_index,
                                current_index>>]_vars

\* C37 witness: item 0 was answered while its timer was pending; that
\* timer has fired during the viewing phase of item 1, whose own timer is
\* still pending, and the text of item 1 is still shown.
C37_Witness ==
    /\ dialog = "open"
    /\ current_index = 1
    /\ Len(responses) = 1
    /\ last_fired = Some([index |-> 0, shown |-> 1, viewing |-> TRUE])
    /\ hide_timers = {1}
    /\ viewing_active
    /\ viewing_index = Some(1)
    /\ text_label = Some(1)

-----------------------------------------------------------------------------
(***************************************************************************)
(* EyeTestPage (src/eye_test_page.py): the page of the window's stack that *)
(* runs the vision test.  open_vision_test shows the page and calls        *)
(* start_test; the page is left by its Exit button only.  Every question   *)
(* is shown for QUESTION_DURATION_SEC with a countdown of 1 s ticks.  The  *)
(* labels and the buttons' looks are not followed; the logger is followed  *)
(* by the entries it is given, an entry by its type, the run that made it  *)
(* and its number of responses.                                            *)
(***************************************************************************)

\* len(self._questions): num_easy + num_medium + num_hard in the code
MaxQuestions == 3

\* the runs of the test followed
MaxRuns == 2

QUESTION_DURATION_SEC == 5
countdown_interval_ms == 1000

\* everything but the EyeTestPage
page_frame == <<monitoring_side, dialog_vars>>

\* (a slip: Submit and Skip act in every state)
AnswerAccepted_Always == TRUE

\* the guard of _on_submit_clicked and _on_skip_clicked (lines 368, 379)
AnswerAccepted == test_state = "WAITING_FOR_INPUT"

\* (a slip: a manual answer is never tagged as late)
FromTimeout_Never == FALSE

\* from_timeout of a manual answer: self._timeout_reached (lines 376, 387)
FromTimeout == timeout_reached

\* _record_result (lines 457-496): the list of results after it
RecordResult(skipped, from_timeout, user_text) ==
    IF question_index < 0 \/ question_index >= MaxQuestions THEN results
    ELSE Append(results,
                [index |-> question_index + 1,
                 user_input |-> user_text,
                 correct |-> ~skipped /\ user_text = "same",
                 skipped |-> skipped,
                 from_timeout |-> from_timeout])

\* _next_question (lines 260-309) with the list of results `recorded`:
\* the next question is shown and its countdown started, or, past the last
\* question, _finish_test (lines 509-639) shows the result screen and, if
\* there are results, gives the logger one vision_test entry
NextQuestion(recorded) ==
    /\ results' = recorded
    /\ question_index' = question_index + 1
    /\ timeout_reached' = FALSE
    /\ IF question_index + 1 >= MaxQuestions
       THEN /\ question_active' = FALSE
            /\ in_result_screen' = TRUE
            /\ test_state' = "FINISHED"
            /\ page_countdown_active' = FALSE
            /\ finished_runs' = finished_runs + 1
            /\ vision_log' =
                  IF recorded = << >> THEN vision_log
                  ELSE Append(vision_log,
                              [type |-> "vision_test", run |-> runs,
                               total_items |-> Len(recorded)])
            /\ UNCHANGED remaining_ms
       ELSE /\ question_active' = TRUE
            /\ test_state' = "WAITING_FOR_INPUT"
            /\ remaining_ms' = QUESTION_DURATION_SEC * 1000
            /\ page_countdown_active' = TRUE
            /\ UNCHANGED <<in_result_screen, vision_log, finished_runs>>

\* open_vision_test (src/main.py:1345-1364) from the dashboard: the page
\* is shown and start_test (lines 71-98) begins a run
EyeTestPage_start_test ==
    /\ ~page_shown
    /\ runs < MaxRuns
    /\ page_shown' = TRUE
    /\ runs' = runs + 1
    /\ question_index' = 0
    /\ results' = << >>
    /\ timeout_reached' = FALSE
    /\ in_result_screen' = FALSE
    /\ question_active' = TRUE
    /\ test_state' = "WAITING_FOR_INPUT"
    /\ remaining_ms' = QUESTION_DURATION_SEC * 1000
    /\ page_countdown_active' = TRUE
    /\ UNCHANGED <<vision_log, finished_runs>>
    /\ UNCHANGED page_frame

\* _on_countdown_tick (lines 332-358)
EyeTestPage_on_countdown_tick ==
    /\ page_countdown_active
    /\ IF test_state # "WAITING_FOR_INPUT"
       THEN /\ page_countdown_active' = FALSE
            /\ UNCHANGED <<remaining_ms, timeout_reached>>
       ELSE LET left == Max(0, remaining_ms - countdown_interval_ms)
            IN  /\ remaining_ms' = left
                /\ page_countdown_active' = (left > 0)
                /\ timeout_reached' = IF left <= 0 THEN TRUE
                                      ELSE timeout_reached
    /\ UNCHANGED <<page_shown, test_state, results, question_index,
                   question_active, in_result_screen, vision_log>>
    /\ UNCHANGED page_history
    /\ UNCHANGED page_frame

\* _on_submit_clicked (lines 367-376) with _finalise_current_answer
\* (lines 435-455): outside WAITING_FOR_INPUT nothing happens; the
\* countdown is stopped; an answer of blanks is refused with a warning
EyeTestPage_on_submit_clicked ==
    /\ page_shown
    /\ \E user_text \in UserTexts :
          IF ~AnswerAccepted
          THEN UNCHANGED <<page_vars, page_history>>
          ELSE IF ~question_active \/ user_text = ""
          THEN /\ page_countdown_active' = FALSE
               /\ UNCHANGED <<page_shown, test_state, results,
                              question_index, question_active, remaining_ms,
                              timeout_reached, in_result_screen, vision_log>>
               /\ UNCHANGED page_history
          ELSE /\ NextQuestion(RecordResult(FALSE, FromTimeout, user_text))
               /\ UNCHANGED <<page_shown, runs>>
    /\ UNCHANGED page_frame

\* _on_skip_clicked (lines 378-388)
EyeTestPage_on_skip_clicked ==
    /\ page_shown
    /\ IF ~AnswerAccepted
       THEN UNCHANGED <<page_vars, page_history>>
       ELSE /\ NextQuestion(RecordResult(TRUE, FromTimeout, ""))
            /\ UNCHANGED <<page_shown, runs>>
    /\ UNCHANGED page_frame

\* _on_exit_clicked (lines 390-433): from the result screen straight back
\* to the dashboard; during a run after a confirmation, with the run
\* thrown away
EyeTestPage_on_exit_clicked ==
    /\ page_shown
    /\ IF test_state = "FINISHED" \/ in_result_screen
       THEN /\ page_countdown_active' = FALSE
            /\ question_active' = FALSE
            /\ remaining_ms' = 0
            /\ test_state' = "IDLE"
            /\ in_result_screen' = FALSE
            /\ page_shown' = FALSE
            /\ UNCHANGED <<results, question_index, timeout_reached>>
       ELSE \E reply_yes \in BOOLEAN :
               IF (question_active \/ results # << >>) /\ ~reply_yes
               THEN UNCHANGED <<page_shown, test_state, results,
                                question_index, question_active,
                                remaining_ms, timeout_reached,
                                in_result_screen, page_countdown_active>>
               ELSE /\ page_countdown_active' = FALSE
                    /\ question_active' = FALSE
                    /\ remaining_ms' = 0
                    /\ results' = << >>
                    /\ question_index' = -1
                    /\ test_state' = "IDLE"
                    /\ in_result_screen' = FALSE
                    /\ page_shown' = FALSE
                    /\ UNCHANGED timeout_reached
    /\ UNCHANGED <<vision_log, page_history>>
    /\ UNCHANGED page_frame

NextPage ==
    \/ EyeTestPage_start_test
    \/ EyeTestPage_on_countdown_tick
    \/ EyeTestPage_on_submit_clicked
    \/ EyeTestPage_on_skip_clicked
    \/ EyeTestPage_on_exit_clicked

InitPage == WindowConstructed /\ NoVisionTest

SpecPage == InitPage /\ [][NextPage]_vars

Waiting == test_state = "WAITING_FOR_INPUT"

\* a tick brings the countdown of the question shown to zero
CountdownReachesZero ==
    Waiting /\ remaining_ms > 0 /\ remaining_ms' = 0 /\ page_shown'

\* the question shown ends and the page goes on to the next question or to
\* the result screen
QuestionEnds == Waiting /\ question_index' = question_index + 1

\* C35: the countdown reaching zero records no result and does not
\* advance; a question ends only by Submit with a non-empty text or by
\* Skip, with one result whose from_timeout is true exactly if the
\* countdown of that question had reached zero before; the timeout flag
\* is clear when the next question is shown.
C35_TimeoutOnlyTagsTheAnswer ==
    /\ [][CountdownReachesZero =>
              /\ UNCHANGED <<results, question_index, test_state,
                             vision_log>>
              /\ timeout_reached']_vars
    /\ [][QuestionEnds =>
              /\ Len(results') = Len(results) + 1
              /\ LET result == results'[Len(results')]
                 IN  /\ SubSeq(results', 1, Len(results)) = results
                     /\ result.index = question_index + 1
                     /\ result.skipped \/ result.user_input # ""
                     /\ result.from_timeout <=> (remaining_ms = 0)
              /\ ~timeout_reached']_vars
    /\ [](Waiting => (timeout_reached <=> (remaining_ms = 0)))

\* C35 witness: the first question was answered by Submit after its
\* countdown had reached zero, the second was answered in time, and the
\* third is shown with the timeout flag clear.
C35_Witness ==
    /\ Waiting
    /\ question_index = 2
    /\ Len(results) = 2
    /\ results[1].from_timeout /\ ~results[1].skipped
    /\ ~results[2].from_timeout
    /\ ~timeout_reached
    /\ remaining_ms = QUESTION_DURATION_SEC * 1000

=============================================================================
